---- MODULE Spec2Model ----
(***************************************************************************)
(* Attack-injection pipeline of the llm-models repository:                 *)
(*   simulation/attack_classes.py     the six attacks, the IQR detector,   *)
(*                                    run_selected_attacks                 *)
(*   simulation/attack_simulator.py   BaseAttackSimulator                  *)
(*   simulation/coordinated_attack.py simulate_coordinated_attack          *)
(*                                                                         *)
(* A DataFrame is a record [columns, rows]; a row is [idx, val] with idx   *)
(* its index label and val a function from the frame's columns to cells.   *)
(* A cell is <<>> (missing, NaN/NaT) or <<v>>.  Numbers are kept in        *)
(* quarters (the number x is the integer 4x), so that the magnitude 1.5 is *)
(* 6 and its product with a noise of 0.5 is the integer 3.                 *)
(* DataFrames live in a heap of named objects, so that a missing .copy()   *)
(* shows as aliasing.                                                       *)
(***************************************************************************)
EXTENDS Integers, Sequences, FiniteSets, TLC

VARIABLES
    heap,       \* object name -> DataFrame (or None)
    pc,         \* where the caller is: "idle", "rsa" (inside run_selected_attacks), "coord",
                \* "done" (a call has finished and the caller holds its outcome)
    rsa,        \* locals of the running / last run_selected_attacks call
    coord,      \* locals of the running / last simulate_coordinated_attack call
    sim,        \* the caller's BaseAttackSimulator object, or None
    result,     \* outcome of the last finished call
    applied,    \* attack instances apply() ran on during the current / last call
    np_random,  \* state of numpy's global generator
    py_random,  \* state of Python's random module
    seed42,     \* what RandomState(42) yields: fixed for the whole run
    fixture,    \* which incident table the caller loaded
    session_state,  \* Streamlit's st.session_state: chat_history names a list object, or is
                \* "None" when the key is not there
    agent,      \* the AIAgent object, or None
    lists       \* list object name -> the chat entries it holds

vars == <<heap, pc, rsa, coord, sim, result, applied, np_random, py_random, seed42, fixture,
          session_state, agent, lists>>

None == [none |-> TRUE]

---------------------------------------------------------------------------
(* Bounds of the model *)

MaxAttacks == 2
MaxRows == 26
NumNpStates == 2
NumPyStates == 2
NumSeedStates == 1

---------------------------------------------------------------------------
(* Cells and numbers *)

NaN == <<>>
Cell(v) == <<v>>
IsNA(c) == c = <<>>
Val(c) == c[1]

\* the default anomaly_magnitude, 1.5
DefaultMagnitude == 6

\* the magnitudes a caller passes: 1.5 and 3.0
Magnitudes == {DefaultMagnitude, 2 * DefaultMagnitude}

\* the product of two numbers
Times(a, b) == (a * b) \div 4

\* ndarray.astype(int): truncation toward zero
AsTypeInt(x) == IF x >= 0 THEN 4 * (x \div 4) ELSE -(4 * ((-x) \div 4))

RECURSIVE SumSeq(_)
SumSeq(s) == IF s = <<>> THEN 0 ELSE Head(s) + SumSeq(Tail(s))

RECURSIVE SumSq(_)
SumSq(s) == IF s = <<>> THEN 0 ELSE Head(s) * Head(s) + SumSq(Tail(s))

\* round(a / b) as Python rounds a float: to nearest, ties to even
RoundHalfEven(a, b) ==
    LET q == a \div b
        r == a % b
    IN  IF 2 * r < b THEN q
        ELSE IF 2 * r > b THEN q + 1
        ELSE IF q % 2 = 0 THEN q ELSE q + 1

---------------------------------------------------------------------------
(* Column names *)

NumericColumns == {"Login Attempts", "Impact Score", "Threat Score", "Num Files Accessed",
                   "Session Duration in Second", "Data Transfer MB", "CPU Usage %",
                   "Memory Usage MB"}

\* the columns of a loaded incident table that the pipeline reads or carries
csv_data_columns == {"Issue ID", "Category", "Timestamps", "Threat Level"} \cup NumericColumns

Categories == {"Access Control", "System Vulnerability", "Network Security", "Data Breach"}

---------------------------------------------------------------------------
(* DataFrame operations (pandas) *)

Range(s) == {s[i] : i \in DOMAIN s}

Index(t) == [i \in DOMAIN t.rows |-> t.rows[i].idx]

\* series of a column: the cells, in row order
Series(t, col) == [i \in DOMAIN t.rows |-> t.rows[i].val[col]]

\* the non-missing values of a series
Vals(p) == [i \in DOMAIN p |-> Val(p[i])]
NotNA(s) == Vals(SelectSeq(s, LAMBDA c : ~IsNA(c)))

\* the rows at which the boolean mask is true
RECURSIVE Keep(_, _)
Keep(rows, mask) ==
    IF rows = <<>> THEN <<>>
    ELSE (IF Head(mask) THEN <<Head(rows)>> ELSE <<>>) \o Keep(Tail(rows), Tail(mask))

\* df[mask]
Filter(t, mask) == [t EXCEPT !.rows = Keep(t.rows, mask)]

\* position of the row labelled l
PosOf(t, l) == CHOOSE i \in DOMAIN t.rows : t.rows[i].idx = l

\* df.loc[labels]: the rows with these labels, in the order of labels
Loc(t, labels) == [t EXCEPT !.rows = [j \in DOMAIN labels |-> t.rows[PosOf(t, labels[j])]]]

\* position of label l in labels
Where(labels, l) == CHOOSE j \in DOMAIN labels : labels[j] = l

\* df.loc[labels, col] = values  (values[j] goes to the row labelled labels[j]);
\* a column the frame lacks is created, missing in every other row
LocSet(t, labels, col, values) ==
    [columns |-> t.columns \cup {col},
     rows |-> [i \in DOMAIN t.rows |->
        LET r == t.rows[i]
            old == [c \in t.columns \cup {col} |-> IF c \in t.columns THEN r.val[c] ELSE NaN]
        IN  IF r.idx \in Range(labels)
            THEN [r EXCEPT !.val = [old EXCEPT ![col] = values[Where(labels, r.idx)]]]
            ELSE [r EXCEPT !.val = old]]]

\* df.loc[labels, col] = scalar
LocSetScalar(t, labels, col, v) == LocSet(t, labels, col, [j \in DOMAIN labels |-> Cell(v)])

\* df.loc[labels, col] += deltas : a missing cell stays missing
LocAdd(t, labels, col, deltas) ==
    LocSet(t, labels, col,
           [j \in DOMAIN labels |->
               LET c == t.rows[PosOf(t, labels[j])].val[col]
               IN  IF IsNA(c) THEN NaN ELSE Cell(Val(c) + deltas[j])])

\* df[col] = scalar, for every row
SetColumn(t, col, v) ==
    [columns |-> t.columns \cup {col},
     rows |-> [i \in DOMAIN t.rows |->
        [t.rows[i] EXCEPT !.val =
            [c \in t.columns \cup {col} |-> IF c = col THEN Cell(v) ELSE t.rows[i].val[c]]]]]

EmptyFrame(cols) == [columns |-> cols, rows |-> <<>>]

\* a row widened to cols, missing where it has no value
Widen(r, from, cols) == [r EXCEPT !.val = [c \in cols |-> IF c \in from THEN r.val[c] ELSE NaN]]

RECURSIVE AllColumns(_)
AllColumns(frames) ==
    IF frames = <<>> THEN {} ELSE Head(frames).columns \cup AllColumns(Tail(frames))

RECURSIVE ConcatRows(_, _)
ConcatRows(frames, cols) ==
    IF frames = <<>> THEN <<>>
    ELSE [i \in DOMAIN Head(frames).rows |-> Widen(Head(frames).rows[i], Head(frames).columns, cols)]
         \o ConcatRows(Tail(frames), cols)

\* pd.concat(frames, ignore_index=True): rows in order, relabelled 0..n-1
ResetIndex(cols, rows) ==
    [columns |-> cols, rows |-> [i \in DOMAIN rows |-> [rows[i] EXCEPT !.idx = i - 1]]]
Concat(frames) == ResetIndex(AllColumns(frames), ConcatRows(frames, AllColumns(frames)))

---------------------------------------------------------------------------
(* Column statistics: BaseAttack._safe_mean / _safe_std *)

\* a rational number num / den
Rat(n, d) == [num |-> n, den |-> d]

\* Series.mean(): NaN when no value is present
MeanOf(v) == IF Len(v) = 0 THEN NaN ELSE Cell(Rat(SumSeq(v), Len(v)))
Mean(s) == MeanOf(NotNA(s))

\* Series.std() squared (ddof = 1): NaN with fewer than two values present
VarianceOf(v, n, sum) == IF n < 2 THEN NaN ELSE Cell(Rat(n * SumSq(v) - sum * sum, n * (n - 1)))
VarianceOfValues(v) == VarianceOf(v, Len(v), SumSeq(v))
Variance(s) == VarianceOfValues(NotNA(s))

\* _safe_mean(series, default=1.0)
MeanOrDefault(val) == IF ~IsNA(val) /\ Val(val).num >= 0 THEN Val(val) ELSE Rat(4, 1)
safe_mean(series) == MeanOrDefault(Mean(series))

\* _safe_std(series, default=0.5), as the square of the standard deviation
StdOrDefault(val) == IF ~IsNA(val) /\ Val(val).num > 0 THEN Val(val) ELSE Rat(4, 1)
safe_std(series) == StdOrDefault(Variance(series))

\* sign of np.log(x) for the rational x >= 0 (log 0 is -inf: negative)
LogSign(x, one) ==
    IF x.num < one * x.den THEN -1 ELSE IF x.num = one * x.den THEN 0 ELSE 1

\* np.log of a mean, and of a standard deviation given by its square
LogOfMean(m) == LogSign(m, 4)
LogOfStd(v) == LogSign(v, 16)

---------------------------------------------------------------------------
(* Random generators *)

\* one value of numpy's global generator in state u, by distribution
NoiseValue(dist, u) ==
    CASE dist = "poisson" -> 4 * u
      [] dist = "normal" -> IF u % 2 = 0 THEN -(2 + 4 * (u \div 2)) - 4 ELSE 2 + 4 * (u \div 2)
      [] dist = "exponential" -> 2 + 4 * u
      [] dist = "lognormal" -> 6 + 4 * u

\* why numpy rejects the parameters of a distribution call, "" when it accepts them;
\* p = [loc, scale]: loc a rational (lam for poisson) or the sign of a logarithm,
\* scale the sign of sigma for lognormal
Rejects(dist, p) ==
    CASE dist = "poisson" -> IF p.loc.num < 0 THEN "lam < 0" ELSE ""
      [] dist = "normal" -> IF p.scale.num < 0 THEN "scale < 0" ELSE ""
      [] dist = "exponential" -> IF p.loc.num < 0 THEN "scale < 0" ELSE ""
      [] dist = "lognormal" -> IF p.scale < 0 THEN "sigma < 0" ELSE ""

\* np.random.<dist>(..., size=n): n values and the generator's next state
Draw(state, dist, n) ==
    [values |-> [i \in 1..n |-> NoiseValue(dist, (state + i - 1) % NumNpStates)],
     state |-> (state + n) % NumNpStates]

\* RandomState(42).choice(len, size=n, replace=False): n distinct positions of rem
RECURSIVE Choice(_, _, _)
Choice(rem, n, k) ==
    IF n = 0 \/ rem = <<>> THEN <<>>
    ELSE LET j == ((7 * k + 3) % Len(rem)) + 1
         IN  <<rem[j]>> \o Choice(SubSeq(rem, 1, j - 1) \o SubSeq(rem, j + 1, Len(rem)), n - 1, k + 1)

\* df.sample(frac=num/den, random_state=42)
Take(t, locs) == [t EXCEPT !.rows = [i \in DOMAIN locs |-> t.rows[locs[i]]]]
Sample(t, num, den, seed) ==
    Take(t, Choice([i \in 1..Len(t.rows) |-> i], RoundHalfEven(Len(t.rows) * num, den), seed))

\* a generator whose range starts at 0
RandInt_from_zero(state) ==
    CASE state % 3 = 0 -> [hi |-> 0, lo |-> 0]
      [] state % 3 = 1 -> [hi |-> 49320, lo |-> 257 + state]
      [] OTHER -> [hi |-> 65535, lo |-> 65535]

\* random.randint(1, 0xffffffff), as the two 16-bit halves of the 32-bit value
RandInt(state) ==
    CASE state % 3 = 0 -> [hi |-> 0, lo |-> 1]
      [] state % 3 = 1 -> [hi |-> 49320, lo |-> 257 + state]
      [] OTHER -> [hi |-> 65535, lo |-> 65535]

\* socket.inet_ntoa(struct.pack('>I', v)): the four octets, most significant first
inet_ntoa(v) == <<v.hi \div 256, v.hi % 256, v.lo \div 256, v.lo % 256>>

\* IPAddressGenerator.generate_ip_pair, n times: the pairs and the generator's next state
generate_ip_pairs(state, n) ==
    [pairs |-> [j \in 1..n |-> <<inet_ntoa(RandInt((state + 2 * (j - 1)) % NumPyStates)),
                                 inet_ntoa(RandInt((state + 2 * (j - 1) + 1) % NumPyStates))>>],
     state |-> (state + 2 * n) % NumPyStates]

---------------------------------------------------------------------------
(* Exceptions *)

Raise(type, msg, arg) == [type |-> type, msg |-> msg, arg |-> arg]
ValueError(msg, arg) == Raise("ValueError", msg, arg)
TypeError(msg, arg) == Raise("TypeError", msg, arg)

---------------------------------------------------------------------------
(* The attacks.  A machine state st is threaded through the statements of  *)
(* a call: heap the DataFrames, np and py the two generators, seed the     *)
(* fixed RandomState(42) stream, exc the exception raised so far (None:    *)
(* none), ret the value returned, log the attack instances apply() has run *)
(* on, targets the index of the rows apply() sampled, rsa and coord the    *)
(* locals of the two runners.                                              *)

Machine(h, np, py, seed) ==
    [heap |-> h, np |-> np, py |-> py, seed |-> seed, exc |-> None, ret |-> None, log |-> <<>>,
     targets |-> <<>>, ip_pairs |-> <<>>, rsa |-> None, coord |-> None]

Raised(st) == st.exc # None

\* distribution parameters
Params(loc, scale) == [loc |-> loc, scale |-> scale]

\* the parameters the attacks derive from a column, by distribution:
\*   poisson(lam=_safe_mean), normal(loc=_safe_mean, scale=_safe_std),
\*   exponential(scale=_safe_mean), lognormal(mean=log(_safe_mean), sigma=log(_safe_std))
ParamsOf(series, dist) ==
    CASE dist = "poisson" -> Params(safe_mean(series), Rat(0, 1))
      [] dist = "normal" -> Params(safe_mean(series), safe_std(series))
      [] dist = "exponential" -> Params(safe_mean(series), Rat(0, 1))
      [] dist = "lognormal" -> Params(LogOfMean(safe_mean(series)), LogOfStd(safe_std(series)))

\* a scaling that shrinks as the magnitude grows
Scaled_damped(anomaly_magnitude, values, truncate) ==
    [j \in DOMAIN values |->
        Times(3 * DefaultMagnitude - anomaly_magnitude,
              IF truncate THEN AsTypeInt(values[j]) ELSE values[j])]

\* anomaly_magnitude * noise[.astype(int)], for each drawn value
Scaled(anomaly_magnitude, values, truncate) ==
    [j \in DOMAIN values |->
        Times(anomaly_magnitude, IF truncate THEN AsTypeInt(values[j]) ELSE values[j])]

AddDrawn(st, self, col, d, truncate) ==
    [st EXCEPT !.heap[self.df] = LocAdd(@, st.targets, col, Scaled(self.anomaly_magnitude, d.values, truncate)),
               !.np = d.state]

AddNoiseWith(st, self, col, dist, p, truncate) ==
    IF Rejects(dist, p) # "" THEN [st EXCEPT !.exc = ValueError(Rejects(dist, p), "")]
    ELSE AddDrawn(st, self, col, Draw(st.np, dist, Len(st.targets)), truncate)

\* self.df.loc[targets.index, col] += self.anomaly_magnitude * np.random.<dist>(
\*     <parameters from self.df[col]>, size=len(targets))[.astype(int)]
AddNoise(st, self, col, dist, truncate) ==
    IF Raised(st) THEN st
    ELSE AddNoiseWith(st, self, col, dist, ParamsOf(Series(st.heap[self.df], col), dist), truncate)

\* self.df.loc[targets.index, col] = v
SetCells(st, self, col, v) ==
    IF Raised(st) THEN st ELSE [st EXCEPT !.heap[self.df] = LocSetScalar(@, st.targets, col, v)]

\* return self.df.loc[targets.index]
ReturnLoc(st, self) ==
    IF Raised(st) THEN st ELSE [st EXCEPT !.ret = Loc(st.heap[self.df], st.targets)]

\* a sample drawn from numpy's global generator
Targets_ambient(st, frame, num, den) == [st EXCEPT !.targets = Index(Sample(frame, num, den, st.np))]

\* targets = <frame>.sample(frac=num/den, random_state=42)
Targets(st, frame, num, den) == [st EXCEPT !.targets = Index(Sample(frame, num, den, st.seed))]

\* df[df["Category"] == category]
CategoryIs(t, category) ==
    Filter(t, [i \in DOMAIN t.rows |-> t.rows[i].val["Category"] = Cell(category)])

\* an __init__ that keeps the caller's frame: self.df = df
BaseAttack_init_shared(h, df, anomaly_magnitude) ==
    [heap |-> h, self |-> [df |-> df, anomaly_magnitude |-> anomaly_magnitude]]

\* BaseAttack.__init__(self, df, anomaly_magnitude)
BaseAttack_init(h, df, anomaly_magnitude) ==
    [heap |-> [h EXCEPT !["attack.df"] = h[df]],
     self |-> [df |-> "attack.df", anomaly_magnitude |-> anomaly_magnitude]]

PhishingAttack_apply(st, self) ==
    LET s0 == Targets(st, CategoryIs(st.heap[self.df], "Access Control"), 1, 10)
        s1 == AddNoise(s0, self, "Login Attempts", "poisson", FALSE)
        s2 == AddNoise(s1, self, "Impact Score", "normal", TRUE)
        s3 == AddNoise(s2, self, "Threat Score", "normal", TRUE)
        s4 == SetCells(s3, self, "Attack Type", "Phishing")
    IN  ReturnLoc(s4, self)

MalwareAttack_apply(st, self) ==
    LET s0 == Targets(st, CategoryIs(st.heap[self.df], "System Vulnerability"), 1, 10)
        s1 == AddNoise(s0, self, "Num Files Accessed", "poisson", FALSE)
        s2 == AddNoise(s1, self, "Impact Score", "normal", TRUE)
        s3 == AddNoise(s2, self, "Threat Score", "normal", TRUE)
        s4 == SetCells(s3, self, "Attack Type", "Malware")
    IN  ReturnLoc(s4, self)

\* ip_pairs = [ip_gen.generate_ip_pair() for _ in range(len(targets))]
SetIpPairs(st, ips) == [st EXCEPT !.py = ips.state, !.ip_pairs = ips.pairs]
WithIpPairs(st) == SetIpPairs(st, generate_ip_pairs(st.py, Len(st.targets)))

\* self.df.loc[targets.index, col] = [pair[k] for pair in ip_pairs]
SetAddresses(st, self, col, k) ==
    IF Raised(st) THEN st
    ELSE [st EXCEPT !.heap[self.df] =
             LocSet(@, st.targets, col, [j \in DOMAIN st.targets |-> Cell(st.ip_pairs[j][k])])]

DDoSAttack_apply(st, self) ==
    LET s0 == Targets(st, CategoryIs(st.heap[self.df], "Network Security"), 1, 5)
        sp == WithIpPairs(s0)
        s1 == AddNoise(sp, self, "Session Duration in Second", "exponential", TRUE)
        s2 == AddNoise(s1, self, "Impact Score", "exponential", TRUE)
        s3 == AddNoise(s2, self, "Threat Score", "exponential", TRUE)
        s4 == AddNoise(s3, self, "Login Attempts", "poisson", FALSE)
        s5 == SetAddresses(s4, self, "Source IP Address", 1)
        s6 == SetAddresses(s5, self, "Destination IP Address", 2)
        s7 == SetCells(s6, self, "Attack Type", "DDoS")
    IN  ReturnLoc(s7, self)

DataLeakAttack_apply(st, self) ==
    LET s0 == Targets(st, CategoryIs(st.heap[self.df], "Data Breach"), 1, 10)
        s1 == AddNoise(s0, self, "Data Transfer MB", "lognormal", FALSE)
        s2 == AddNoise(s1, self, "Impact Score", "lognormal", TRUE)
        s3 == AddNoise(s2, self, "Threat Score", "lognormal", TRUE)
        s4 == SetCells(s3, self, "Attack Type", "Data Leak")
    IN  ReturnLoc(s4, self)

\* pd.to_datetime(cell, errors='coerce').hour: missing for a missing or unparsable timestamp
HourOf(c) == IF IsNA(c) \/ ~Val(c).parsable THEN NaN ELSE Cell(Val(c).hour)

\* self.df['hour'] = pd.to_datetime(self.df['Timestamps'], errors='coerce').dt.hour
WithHour(t) ==
    [columns |-> t.columns \cup {"hour"},
     rows |-> [i \in DOMAIN t.rows |->
        [t.rows[i] EXCEPT !.val =
            [c \in t.columns \cup {"hour"} |->
                IF c = "hour" THEN HourOf(t.rows[i].val["Timestamps"]) ELSE t.rows[i].val[c]]]]]

\* a filter that lets rows without an hour through
LateHours_with_missing(t) ==
    Filter(t, [i \in DOMAIN t.rows |->
                  \/ IsNA(t.rows[i].val["hour"])
                  \/ Val(t.rows[i].val["hour"]) < 6
                  \/ Val(t.rows[i].val["hour"]) > 23])

\* self.df[(self.df['hour'] < 6) | (self.df['hour'] > 23)]
LateHours(t) ==
    Filter(t, [i \in DOMAIN t.rows |->
                  /\ ~IsNA(t.rows[i].val["hour"])
                  /\ (Val(t.rows[i].val["hour"]) < 6 \/ Val(t.rows[i].val["hour"]) > 23)])

SetHour(st, self) == [st EXCEPT !.heap[self.df] = WithHour(@)]

\* targets = late_hours.sample(frac=0.1, random_state=42)
LateTargets(st, self) == Targets(st, LateHours(st.heap[self.df]), 1, 10)

\* the lognormal parameters of "Data Transfer MB" are read before "Access Restricted
\* Files" is set, which does not change them
InsiderThreatAttack_apply(st, self) ==
    LET sh == SetHour(st, self)
        s0 == LateTargets(sh, self)
        s1 == SetCells(s0, self, "Access Restricted Files", TRUE)
        s2 == AddNoise(s1, self, "Data Transfer MB", "lognormal", FALSE)
        s3 == AddNoise(s2, self, "Impact Score", "lognormal", TRUE)
        s4 == AddNoise(s3, self, "Threat Score", "lognormal", TRUE)
        s5 == SetCells(s4, self, "Attack Type", "Insider Threat")
    IN  ReturnLoc(s5, self)

RansomwareAttack_apply(st, self) ==
    LET s0 == Targets(st, CategoryIs(st.heap[self.df], "System Vulnerability"), 1, 50)
        s1 == AddNoise(s0, self, "CPU Usage %", "normal", FALSE)
        s2 == AddNoise(s1, self, "Memory Usage MB", "lognormal", FALSE)
        s3 == AddNoise(s2, self, "Num Files Accessed", "poisson", FALSE)
        s4 == AddNoise(s3, self, "Impact Score", "lognormal", TRUE)
        s5 == AddNoise(s4, self, "Threat Score", "lognormal", TRUE)
        s6 == SetCells(s5, self, "Attack Type", "Ransomware")
    IN  ReturnLoc(s6, self)

\* the keys of attack_map
AttackKinds == {"phishing", "malware", "ddos", "data_leak", "insider", "ransomware"}

\* attack_map
attack_map(kind) ==
    CASE kind = "phishing" -> "PhishingAttack"
      [] kind = "malware" -> "MalwareAttack"
      [] kind = "ddos" -> "DDoSAttack"
      [] kind = "data_leak" -> "DataLeakAttack"
      [] kind = "insider" -> "InsiderThreatAttack"
      [] kind = "ransomware" -> "RansomwareAttack"

\* <attack_class>.apply(self)
apply(cls, st, self) ==
    CASE cls = "PhishingAttack" -> PhishingAttack_apply(st, self)
      [] cls = "MalwareAttack" -> MalwareAttack_apply(st, self)
      [] cls = "DDoSAttack" -> DDoSAttack_apply(st, self)
      [] cls = "DataLeakAttack" -> DataLeakAttack_apply(st, self)
      [] cls = "InsiderThreatAttack" -> InsiderThreatAttack_apply(st, self)
      [] cls = "RansomwareAttack" -> RansomwareAttack_apply(st, self)

\* apply() has run on the instance self: it is logged, and the instance dies
Applied(st, kind, self) ==
    [st EXCEPT !.heap["attack.df"] = None,
               !.targets = <<>>,
               !.ip_pairs = <<>>,
               !.log = Append(@, [kind |-> kind,
                                  anomaly_magnitude |-> self.anomaly_magnitude,
                                  df |-> self.df,
                                  targets |-> st.targets,
                                  ret |-> st.ret,
                                  raised |-> Raised(st)])]

ApplyOn(st, kind, self) == Applied(apply(attack_map(kind), st, self), kind, self)

\* attack_class(...).apply(), the instance being what BaseAttack.__init__ built
RunAttack(st, kind, init) == ApplyOn([st EXCEPT !.heap = init.heap], kind, init.self)

---------------------------------------------------------------------------
(* run_selected_attacks *)

\* str.capitalize(): first character upper case, the others lower case
capitalize(str) ==
    CASE str = "phishing" -> "Phishing"
      [] str = "malware" -> "Malware"
      [] str = "ddos" -> "Ddos"
      [] str = "data_leak" -> "Data_leak"
      [] str = "insider" -> "Insider"
      [] str = "ransomware" -> "Ransomware"
      [] str = "rootkit" -> "Rootkit"

\* full_df_with_anomalies = df.copy()
rsa_copy(h, df) ==
    [heap |-> [h EXCEPT !["full_df_with_anomalies"] = h[df]], ref |-> "full_df_with_anomalies"]

\* the checks without the one of the attack list
rsa_check_table_only(df, selected_attacks) ==
    IF df = "None" THEN ValueError("Input DataFrame is None. Please check the file path.", "")
    ELSE None

\* the two checks of the arguments: the exception raised, None when they pass
rsa_check(df, selected_attacks) ==
    IF selected_attacks = <<>> THEN ValueError("No attacks selected for simulation.", "")
    ELSE IF df = "None" THEN ValueError("Input DataFrame is None. Please check the file path.", "")
    ELSE None

\* full_df_with_anomalies["AnomalyInjected"] = False; anomaly_records = []
rsa_begin(st, c, df, anomaly_magnitude, selected_attacks, verbose) ==
    [st EXCEPT !.heap = [c.heap EXCEPT ![c.ref] = SetColumn(@, "AnomalyInjected", FALSE)],
               !.rsa = [df |-> df,
                        anomaly_magnitude |-> anomaly_magnitude,
                        selected_attacks |-> selected_attacks,
                        verbose |-> verbose,
                        full_df_with_anomalies |-> c.ref,
                        anomaly_records |-> <<>>,
                        i |-> 1,
                        stdout |-> <<>>]]

\* the call with all of its arguments bound
rsa_bound(st, df, anomaly_magnitude, selected_attacks, verbose) ==
    IF rsa_check(df, selected_attacks) # None
    THEN [st EXCEPT !.exc = rsa_check(df, selected_attacks)]
    ELSE rsa_begin(st, rsa_copy(st.heap, df), df, anomaly_magnitude, selected_attacks, verbose)

\* binding of the arguments, the two checks, the working copy
rsa_enter(st, args) ==
    IF Len(args) < 3
    THEN [st EXCEPT !.exc = TypeError("run_selected_attacks() missing 1 required positional argument: ",
                                      "selected_attacks")]
    ELSE rsa_bound(st, args[1], args[2], args[3], IF Len(args) >= 4 THEN args[4] ELSE TRUE)

\* the kind the loop is at
rsa_attack(st) == st.rsa.selected_attacks[st.rsa.i]

\* if verbose: print(line)
rsa_print(st, line) == IF st.rsa.verbose THEN [st EXCEPT !.rsa.stdout = Append(@, line)] ELSE st

\* an error that does not name the kind
UnknownAttackType_unnamed(attack) == ValueError("Unknown attack type: ", "")

\* raise ValueError(f"Unknown attack type: {attack}")
UnknownAttackType(attack) == ValueError("Unknown attack type: ", attack)

\* a marking that keeps the label a row already has
rsa_mark_first(t, modified_indices, attack) ==
    LocSetScalar(LocSetScalar(t,
                              SelectSeq(modified_indices,
                                        LAMBDA l : t.rows[PosOf(t, l)].val["AnomalyInjected"] = Cell(FALSE)),
                              "Attack Type", capitalize(attack)),
                 modified_indices, "AnomalyInjected", TRUE)

\* the rows named by modified_indices are marked in the working copy
rsa_mark(t, modified_indices, attack) ==
    LocSetScalar(LocSetScalar(t, modified_indices, "AnomalyInjected", TRUE),
                 modified_indices, "Attack Type", capitalize(attack))

\* a pass that keeps the subset and marks nothing
rsa_record_unflagged(s1, attack) ==
    IF Raised(s1) THEN s1
    ELSE [s1 EXCEPT !.ret = None,
                    !.rsa.anomaly_records = IF s1.ret.rows = <<>> THEN @ ELSE Append(@, s1.ret),
                    !.rsa.i = @ + 1]

\* the rest of a pass of the loop, s1 being the state after attack_instance.apply()
rsa_record(s1, attack) ==
    IF Raised(s1) THEN s1
    ELSE IF s1.ret.rows = <<>>
    THEN [rsa_print(s1, <<"[-] No rows affected by", capitalize(attack)>>) EXCEPT !.ret = None, !.rsa.i = @ + 1]
    ELSE [s1 EXCEPT !.ret = None,
                    !.heap[s1.rsa.full_df_with_anomalies] = rsa_mark(@, Index(s1.ret), attack),
                    !.rsa.anomaly_records = Append(@, s1.ret),
                    !.rsa.i = @ + 1]

\* a pass whose attack works on the working copy itself
rsa_apply_in_place(st, attack) ==
    IF attack \notin AttackKinds THEN [st EXCEPT !.exc = UnknownAttackType(attack)]
    ELSE RunAttack(st, attack,
                   BaseAttack_init_shared(st.heap, st.rsa.full_df_with_anomalies, st.rsa.anomaly_magnitude))

\* attack_instance = attack_class(full_df_with_anomalies, anomaly_magnitude);
\* modified_rows_df = attack_instance.apply()
rsa_apply(st, attack) ==
    IF attack \notin AttackKinds THEN [st EXCEPT !.exc = UnknownAttackType(attack)]
    ELSE RunAttack(st, attack,
                   BaseAttack_init(st.heap, st.rsa.full_df_with_anomalies, st.rsa.anomaly_magnitude))

\* one pass of the loop, for selected_attacks[i]
rsa_iter(st) ==
    rsa_record(rsa_apply(rsa_print(st, <<"[+] Applying", capitalize(rsa_attack(st))>>), rsa_attack(st)),
               rsa_attack(st))

\* a result that is the whole working copy
rsa_exit_full(st) ==
    IF Raised(st) THEN st ELSE [st EXCEPT !.ret = st.heap[st.rsa.full_df_with_anomalies]]

\* the result
rsa_exit(st) ==
    IF Raised(st) THEN st
    ELSE [st EXCEPT !.ret = IF st.rsa.anomaly_records # <<>>
                            THEN Concat(st.rsa.anomaly_records)
                            ELSE EmptyFrame(st.heap[st.rsa.full_df_with_anomalies].columns)]

rsa_looping(st) == ~Raised(st) /\ st.rsa # None /\ st.rsa.i <= Len(st.rsa.selected_attacks)

RECURSIVE rsa_loop(_)
rsa_loop(st) == IF rsa_looping(st) THEN rsa_loop(rsa_iter(st)) ELSE st

\* run_selected_attacks(*args), as one call
run_selected_attacks(st, args) == rsa_exit(rsa_loop(rsa_enter(st, args)))

---------------------------------------------------------------------------
(* BaseAttackSimulator *)

\* where the simulator named self keeps its base_data
BaseDataOf(self) == IF self = "sim" THEN "sim.base_data" ELSE "simulator.base_data"

\* BaseAttackSimulator.__init__(self, base_data, anomaly_magnitude, phase)
BaseAttackSimulator_init(h, self, base_data, anomaly_magnitude, phase) ==
    [heap |-> [h EXCEPT ![BaseDataOf(self)] = h[base_data]],
     self |-> [base_data |-> BaseDataOf(self), anomaly_magnitude |-> anomaly_magnitude, phase |-> phase]]

\* BaseAttackSimulator.run_attack(self, attack_type)
run_attack(st, self, attack_type) ==
    IF attack_type \notin AttackKinds
    THEN [st EXCEPT !.exc = UnknownAttackType(attack_type)]
    ELSE RunAttack(st, attack_type, BaseAttack_init(st.heap, self.base_data, DefaultMagnitude))

\* BaseAttackSimulator.run_multiple_attacks(self, attack_list)
run_multiple_attacks(st, self, attack_list) ==
    run_selected_attacks(st, <<self.base_data, attack_list>>)

\* the simulator new.self is built, then the method is called on it
OnSimulator(st, new) == [st EXCEPT !.heap = new.heap]

---------------------------------------------------------------------------
(* simulate_coordinated_attack *)

\* the default of the parameter phases
DefaultPhases == <<"initial", "escalation", "critical">>

\* the attack_sequence used when the caller passes None
DefaultAttackSequence ==
    [phase \in {"initial", "escalation", "critical"} |->
        CASE phase = "initial" -> <<"phishing", "insider">>
          [] phase = "escalation" -> <<"malware", "data_leak">>
          [] phase = "critical" -> <<"ddos", "ransomware">>]

\* dict.get(key, [])
Get(dict, key) == IF key \in DOMAIN dict THEN dict[key] ELSE <<>>

\* combined_data = base_data.copy()
coord_copy(h, base_data) ==
    [heap |-> [h EXCEPT !["combined_data"] = h[base_data]], ref |-> "combined_data"]

\* the locals, c being the copy made of base_data
coord_begin(st, c, base_data, phases, attack_sequence, anomaly_magnitude) ==
    [st EXCEPT !.heap = c.heap,
               !.coord = [base_data |-> base_data,
                          phases |-> phases,
                          attack_sequence |-> IF "none" \in DOMAIN attack_sequence
                                              THEN DefaultAttackSequence ELSE attack_sequence,
                          anomaly_magnitude |-> anomaly_magnitude,
                          attack_log |-> <<>>,
                          combined_data |-> c.ref,
                          all_phase_data |-> <<>>,
                          k |-> 1,
                          stdout |-> <<>>]]

\* the defaults and the locals
coord_enter(st, base_data, phases, attack_sequence, anomaly_magnitude) ==
    coord_begin(st, coord_copy(st.heap, base_data), base_data, phases, attack_sequence, anomaly_magnitude)

\* the phase the loop is at, and its attacks
coord_phase(st) == st.coord.phases[st.coord.k]
coord_attacks(st) == Get(st.coord.attack_sequence, coord_phase(st))

\* print(f"Running {phase} phase attacks: {attacks}")
coord_print(st, line) == [st EXCEPT !.coord.stdout = Append(@, line)]

\* a loop that logs a failed phase and goes on with the next
coord_record_salvage(s1, phase, attacks) ==
    [s1 EXCEPT !.exc = None,
               !.ret = None,
               !.coord.all_phase_data = IF Raised(s1) THEN @ ELSE Append(@, SetColumn(s1.ret, "Phase", phase)),
               !.coord.attack_log = Append(@, <<phase, attacks>>),
               !.coord.k = @ + 1]

\* phase_df["Phase"] = phase; all_phase_data.append(phase_df); attack_log.append((phase, attacks))
coord_record(s1, phase, attacks) ==
    IF Raised(s1) THEN s1
    ELSE [s1 EXCEPT !.ret = None,
                    !.coord.all_phase_data = Append(@, SetColumn(s1.ret, "Phase", phase)),
                    !.coord.attack_log = Append(@, <<phase, attacks>>),
                    !.coord.k = @ + 1]

\* simulator = BaseAttackSimulator(combined_data, anomaly_magnitude, phase);
\* phase_df = simulator.run_multiple_attacks(attacks)
coord_run(st, new, attacks) == run_multiple_attacks(OnSimulator(st, new), new.self, attacks)

\* one pass of the loop, for phases[k]
coord_iter(st) ==
    coord_record(
        coord_run(coord_print(st, <<"Running", coord_phase(st), coord_attacks(st)>>),
                  BaseAttackSimulator_init(st.heap, "simulator", st.coord.combined_data,
                                           st.coord.anomaly_magnitude, coord_phase(st)),
                  coord_attacks(st)),
        coord_phase(st), coord_attacks(st))

\* the result
coord_exit(st) ==
    IF Raised(st) THEN st
    ELSE IF st.coord.all_phase_data = <<>>
    THEN [st EXCEPT !.exc = ValueError("No objects to concatenate", "")]
    ELSE [st EXCEPT !.ret = [final_df |-> Concat(st.coord.all_phase_data),
                             attack_log |-> st.coord.attack_log]]

coord_looping(st) == ~Raised(st) /\ st.coord # None /\ st.coord.k <= Len(st.coord.phases)

---------------------------------------------------------------------------
(* EarlyAnomalyDetectorClass *)

RECURSIVE Insert(_, _)
Insert(x, sorted) ==
    IF sorted = <<>> THEN <<x>>
    ELSE IF x <= Head(sorted) THEN <<x>> \o sorted
    ELSE <<Head(sorted)>> \o Insert(x, Tail(sorted))

RECURSIVE Sort(_)
Sort(s) == IF s = <<>> THEN <<>> ELSE Insert(Head(s), Sort(Tail(s)))

\* 4 * quantile(k / 4) of the sorted values v, by linear interpolation; NaN when v is empty
QuantileOf(v, n, lo, r) ==
    IF n = 0 THEN NaN
    ELSE IF r = 0 THEN Cell(4 * v[lo + 1])
    ELSE Cell((4 - r) * v[lo + 1] + r * v[lo + 2])

QuantileOfSorted(v, k) == QuantileOf(v, Len(v), (k * (Len(v) - 1)) \div 4, (k * (Len(v) - 1)) % 4)

\* 4 * Series.quantile(k / 4)
Quantile4(series, k) == QuantileOfSorted(Sort(NotNA(series)), k)

\* a flagger whose fences are not strict
Outlier_inclusive(c, q1, q3) ==
    /\ ~IsNA(c) /\ ~IsNA(q1) /\ ~IsNA(q3)
    /\ \/ 8 * Val(c) <= 5 * Val(q1) - 3 * Val(q3)
       \/ 8 * Val(c) >= 5 * Val(q3) - 3 * Val(q1)

\* a flagger that knows the upper fence only
Outlier_upper_only(c, q1, q3) ==
    /\ ~IsNA(c) /\ ~IsNA(q1) /\ ~IsNA(q3)
    /\ 8 * Val(c) > 5 * Val(q3) - 3 * Val(q1)

\* (x < Q1 - 1.5 * IQR) | (x > Q3 + 1.5 * IQR), with q1 = 4 * Q1 and q3 = 4 * Q3
Outlier(c, q1, q3) ==
    /\ ~IsNA(c) /\ ~IsNA(q1) /\ ~IsNA(q3)
    /\ \/ 8 * Val(c) < 5 * Val(q1) - 3 * Val(q3)
       \/ 8 * Val(c) > 5 * Val(q3) - 3 * Val(q1)

\* self.df = df.copy()
EarlyAnomalyDetectorClass_init(h, df) ==
    [heap |-> [h EXCEPT !["detector.df"] = h[df]], self |-> [df |-> "detector.df"]]

\* self.df['Actual Anomaly'] = (...).astype(int)
Flagged(t, column, Q1, Q3) ==
    [columns |-> t.columns \cup {"Actual Anomaly"},
     rows |-> [i \in DOMAIN t.rows |->
        [t.rows[i] EXCEPT !.val =
            [c \in t.columns \cup {"Actual Anomaly"} |->
                IF c = "Actual Anomaly"
                THEN Cell(IF Outlier(t.rows[i].val[column], Q1, Q3) THEN 1 ELSE 0)
                ELSE t.rows[i].val[c]]]]]

\* self.df[self.df['Actual Anomaly'] == v]
ActualAnomalyIs(t, v) ==
    Filter(t, [i \in DOMAIN t.rows |-> t.rows[i].val["Actual Anomaly"] = Cell(v)])

\* return df_anomalies, df_normal
Partition(st, self, flagged) ==
    [st EXCEPT !.heap[self.df] = flagged,
               !.ret = [df_anomalies |-> ActualAnomalyIs(flagged, 1),
                        df_normal |-> ActualAnomalyIs(flagged, 0)]]

\* EarlyAnomalyDetectorClass.detect_early_anomalies(self, column)
detect_early_anomalies(st, self, column) ==
    Partition(st, self,
              Flagged(st.heap[self.df], column,
                      Quantile4(Series(st.heap[self.df], column), 1),
                      Quantile4(Series(st.heap[self.df], column), 3)))

---------------------------------------------------------------------------
(* The incident tables a caller loads *)

CategoryCycle == <<"Access Control", "System Vulnerability", "Network Security", "Data Breach">>

\* Category of row i
CategoryAt(profile, i) ==
    CASE profile = "mixed" -> CategoryCycle[(i % 4) + 1]
      [] profile = "access, network" -> IF i <= 6 THEN "Access Control" ELSE "Network Security"
      [] OTHER -> profile

\* Timestamps of row i
TimestampAt(profile, i) ==
    CASE profile = "night" -> Cell([parsable |-> TRUE, hour |-> 2])
      [] profile = "day" -> Cell([parsable |-> TRUE, hour |-> 12])
      [] profile = "mixed" -> IF i % 5 = 0 THEN Cell([parsable |-> FALSE, hour |-> 0])
                              ELSE IF i % 7 = 0 THEN NaN
                              ELSE Cell([parsable |-> TRUE, hour |-> (5 * i) % 24])
      [] profile = "garbled" -> IF i % 3 = 1 THEN Cell([parsable |-> FALSE, hour |-> 0])
                                ELSE Cell([parsable |-> TRUE, hour |-> 2])

\* value of every numeric column in row i
NumberAt(profile, i) ==
    CASE profile = "spread" -> Cell(4 * i)
      [] profile = "constant" -> Cell(20)
      [] profile = "zero" -> Cell(0)
      [] profile = "negative" -> Cell(-4 * i)
      [] profile = "missing" -> NaN
      [] profile = "outlier" -> IF i = 3 THEN Cell(4000) ELSE Cell(40 + 4 * (i % 3))
      [] profile = "dip" -> IF i = 2 THEN Cell(-4000) ELSE Cell(40 + 4 * (i % 3))
      [] profile = "gaps" -> IF i % 4 = 0 THEN NaN
                             ELSE IF i = 3 THEN Cell(4000) ELSE Cell(40 + 4 * (i % 3))
      [] profile = "spike" -> IF i = 3 THEN Cell(4000) ELSE IF i = 2 THEN Cell(19) ELSE Cell(20)

\* the table of fixture f = [n, category, number, timestamp], with a RangeIndex
BaseTable(f) ==
    [columns |-> csv_data_columns,
     rows |-> [i \in 1..f.n |->
        [idx |-> i - 1,
         val |-> [c \in csv_data_columns |->
            CASE c = "Issue ID" -> Cell(i)
              [] c = "Category" -> Cell(CategoryAt(f.category, i))
              [] c = "Timestamps" -> TimestampAt(f.timestamp, i)
              [] c = "Threat Level" -> Cell("Low")
              [] OTHER -> NumberAt(f.number, i)]]]]

Fixture(n, category, number, timestamp) ==
    [n |-> n, category |-> category, number |-> number, timestamp |-> timestamp]

\* the tables the pipeline is run on
Fixtures ==
    { Fixture(0, "mixed", "spread", "day"),
      Fixture(6, "System Vulnerability", "spread", "night"),
      Fixture(6, "Access Control", "spread", "mixed"),
      Fixture(6, "Data Breach", "constant", "night"),
      Fixture(9, "access, network", "spread", "day") }

\* the tables single attacks are applied to: for every kind, tables with 20 and more
\* rows that satisfy its predicate, and tables with degenerate columns
AttackFixtures ==
    Fixtures
    \cup {Fixture(n, category, "spread", "night") : n \in {20, MaxRows - 1, MaxRows}, category \in Categories}
    \cup {Fixture(7, category, number, "mixed") :
             category \in {"Data Breach", "mixed"}, number \in {"constant", "zero", "negative", "missing"}}
    \cup {Fixture(6, "Network Security", "negative", "day"), Fixture(6, "Data Breach", "spread", "night"),
          Fixture(9, "mixed", "spread", "garbled"), Fixture(MaxRows, "mixed", "spread", "mixed")}

\* the tables the anomaly flagger is run on: columns with one synthetic outlier above
\* or below the rest, with missing values, and without outliers
DetectorFixtures ==
    {Fixture(n, "mixed", number, "day") :
        n \in {5, 8, 12}, number \in {"spread", "outlier", "dip", "gaps", "missing", "spike", "constant"}}
    \cup {Fixture(8, "Data Breach", number, "garbled") : number \in {"dip", "spike"}}

---------------------------------------------------------------------------
(* What callers pass *)

SeqsUpTo(S, n) == UNION {[1..m -> S] : m \in 0..n}

\* attack names: the six kinds and one that attack_map lacks
AttackNames == AttackKinds \cup {"rootkit"}

AttackLists == SeqsUpTo(AttackNames, MaxAttacks)

PhaseLists == {DefaultPhases, <<>>, <<"initial">>, <<"critical", "recon">>}

\* attack_sequence: None, or app.py's {phase: selected_attacks for phase in selected_phases}
AttackSequences ==
    {None} \cup {[phase \in {"initial", "critical"} |-> attacks] : attacks \in {<<"ddos">>, <<"malware", "insider">>}}

\* the list objects a session and an agent can hold between them, and one to spare
ListNames == {"list.1", "list.2", "list.3"}

Slots == {"None", "df", "sim.base_data", "simulator.base_data", "combined_data",
          "full_df_with_anomalies", "attack.df", "detector.df"}

---------------------------------------------------------------------------
(* The state machine *)

NoResult == [op |-> "none", args |-> None, exc |-> None, ret |-> None]

InitOn(tables) ==
    /\ fixture \in tables
    /\ heap = [n \in Slots |-> IF n = "df" THEN BaseTable(fixture) ELSE None]
    /\ pc = "idle"
    /\ rsa = None
    /\ coord = None
    /\ sim = None
    /\ result = NoResult
    /\ applied = <<>>
    /\ np_random \in 0..(NumNpStates - 1)
    /\ py_random \in 0..(NumPyStates - 1)
    /\ seed42 \in 0..(NumSeedStates - 1)
    /\ session_state = [chat_history |-> "None"]
    /\ agent = None
    /\ lists = [l \in ListNames |-> <<>>]

\* the machine at the start of a call: the locals of earlier calls are gone
Fresh ==
    Machine([n \in Slots |-> IF n = "df" THEN heap["df"] ELSE None], np_random, py_random, seed42)

\* the machine inside a running call
Current ==
    [Machine(heap, np_random, py_random, seed42) EXCEPT !.log = applied, !.rsa = rsa, !.coord = coord]

Commit(st) ==
    /\ heap' = st.heap
    /\ np_random' = st.np
    /\ py_random' = st.py
    /\ applied' = st.log
    /\ rsa' = st.rsa
    /\ coord' = st.coord

Outcome(op, args, st) == [op |-> op, args |-> args, exc |-> st.exc, ret |-> st.ret]

\* a call is made and reaches st: it is over when it raised, else it goes on at next
Call(op, args, st, self, next) ==
    /\ Commit(st)
    /\ result' = Outcome(op, args, st)
    /\ sim' = self
    /\ pc' = IF Raised(st) THEN "done" ELSE next
    /\ UNCHANGED <<seed42, fixture, session_state, agent, lists>>

\* the running call reaches st
Step(st, next) ==
    /\ Commit(st)
    /\ result' = [result EXCEPT !.exc = st.exc, !.ret = st.ret]
    /\ pc' = IF Raised(st) THEN "done" ELSE next
    /\ UNCHANGED <<sim, seed42, fixture, session_state, agent, lists>>

\* <AttackClass>(df, anomaly_magnitude).apply()
CallApply ==
    /\ pc = "idle"
    /\ \E kind \in AttackKinds, anomaly_magnitude \in Magnitudes :
          Call("apply", [kind |-> kind, anomaly_magnitude |-> anomaly_magnitude],
               RunAttack(Fresh, kind, BaseAttack_init(Fresh.heap, "df", anomaly_magnitude)),
               None, "done")

\* run_selected_attacks(df, anomaly_magnitude, selected_attacks, verbose): up to the loop
CallRunSelectedAttacks ==
    /\ pc = "idle"
    /\ \E df \in {"df", "None"}, anomaly_magnitude \in Magnitudes,
          selected_attacks \in AttackLists, verbose \in {TRUE} :
          Call("run_selected_attacks",
               [df |-> df, anomaly_magnitude |-> anomaly_magnitude, selected_attacks |-> selected_attacks],
               rsa_enter(Fresh, <<df, anomaly_magnitude, selected_attacks, verbose>>),
               None, "rsa")

\* one pass of the loop of run_selected_attacks
RsaIter ==
    /\ pc = "rsa"
    /\ rsa_looping(Current)
    /\ Step(rsa_iter(Current), "rsa")

\* the loop is over: run_selected_attacks returns
RsaReturn ==
    /\ pc = "rsa"
    /\ ~rsa_looping(Current)
    /\ Step(rsa_exit(Current), "done")

\* the simulator new.self runs attack_type
SimRunAttack(new, anomaly_magnitude, attack_type) ==
    Call("run_attack", [anomaly_magnitude |-> anomaly_magnitude, attack_type |-> attack_type],
         run_attack(OnSimulator(Fresh, new), new.self, attack_type), new.self, "done")

\* BaseAttackSimulator(df, anomaly_magnitude, phase).run_attack(attack_type)
CallRunAttack ==
    /\ pc = "idle"
    /\ \E anomaly_magnitude \in Magnitudes, attack_type \in AttackNames :
          SimRunAttack(BaseAttackSimulator_init(Fresh.heap, "sim", "df", anomaly_magnitude, "initial"),
                       anomaly_magnitude, attack_type)

\* the simulator new.self runs attack_list
SimRunMultipleAttacks(new, anomaly_magnitude, attack_list) ==
    Call("run_multiple_attacks", [anomaly_magnitude |-> anomaly_magnitude, attack_list |-> attack_list],
         run_multiple_attacks(OnSimulator(Fresh, new), new.self, attack_list), new.self, "done")

\* BaseAttackSimulator(df, anomaly_magnitude, phase).run_multiple_attacks(attack_list)
CallRunMultipleAttacks ==
    /\ pc = "idle"
    /\ \E anomaly_magnitude \in Magnitudes, attack_list \in AttackLists :
          SimRunMultipleAttacks(BaseAttackSimulator_init(Fresh.heap, "sim", "df", anomaly_magnitude, "initial"),
                                anomaly_magnitude, attack_list)

\* simulate_coordinated_attack(df, phases, attack_sequence, anomaly_magnitude): up to the loop
CallSimulateCoordinatedAttack ==
    /\ pc = "idle"
    /\ \E phases \in PhaseLists, attack_sequence \in AttackSequences, anomaly_magnitude \in Magnitudes :
          Call("simulate_coordinated_attack",
               [phases |-> phases, attack_sequence |-> attack_sequence,
                anomaly_magnitude |-> anomaly_magnitude],
               coord_enter(Fresh, "df", phases, attack_sequence, anomaly_magnitude),
               None, "coord")

\* one pass of the loop of simulate_coordinated_attack
CoordIter ==
    /\ pc = "coord"
    /\ coord_looping(Current)
    /\ Step(coord_iter(Current), "coord")

\* the loop is over: simulate_coordinated_attack concatenates and returns
CoordReturn ==
    /\ pc = "coord"
    /\ ~coord_looping(Current)
    /\ Step(coord_exit(Current), "done")

\* the detector new.self flags column
DetectorRun(new, column) ==
    Call("detect_early_anomalies", [column |-> column],
         detect_early_anomalies(OnSimulator(Fresh, new), new.self, column), None, "done")

\* EarlyAnomalyDetectorClass(df).detect_early_anomalies(column)
CallDetectEarlyAnomalies ==
    /\ pc = "idle"
    /\ \E column \in {"Threat Score", "Data Transfer MB"} :
          DetectorRun(EarlyAnomalyDetectorClass_init(Fresh.heap, "df"), column)

\* the caller drops the outcome of the finished call; its locals are gone
Discard ==
    /\ pc = "done"
    /\ pc' = "idle"
    /\ heap' = Fresh.heap
    /\ rsa' = None
    /\ coord' = None
    /\ sim' = None
    /\ result' = NoResult
    /\ applied' = <<>>
    /\ UNCHANGED <<np_random, py_random, seed42, fixture, session_state, agent, lists>>

Next ==
    \/ Discard
    \/ CallApply
    \/ CallRunSelectedAttacks
    \/ RsaIter
    \/ RsaReturn
    \/ CallRunAttack
    \/ CallRunMultipleAttacks
    \/ CallSimulateCoordinatedAttack
    \/ CoordIter
    \/ CoordReturn
    \/ CallDetectEarlyAnomalies

Init == InitOn(Fixtures)

\* the whole pipeline
Spec == Init /\ [][Next]_vars

InitAttacks == InitOn(AttackFixtures)

NextAttacks ==
    \/ Discard
    \/ CallApply

\* single attacks, on more tables
SpecAttacks == InitAttacks /\ [][NextAttacks]_vars

InitDetector == InitOn(DetectorFixtures)

NextDetector ==
    \/ Discard
    \/ CallDetectEarlyAnomalies

\* the anomaly flagger alone, on tables with synthetic outliers
SpecDetector == InitDetector /\ [][NextDetector]_vars

---------------------------------------------------------------------------
(* The Streamlit app: validation of the loaded table, and the chat history *)
(* that st.session_state and the AIAgent share as one list object          *)

MaxPairs == 2

\* the columns of validator.expected_columns("csv") that the attack pipeline does not read
OtherColumns ==
    {"Issue Key", "Issue Name", "Issue Volume", "Severity", "Status", "Reporters", "Assignees",
     "Date Reported", "Date Resolved", "Issue Response Time Days", "Risk Level",
     "Department Affected", "Remediation Steps", "Cost", "KPI/KRI", "User ID", "Activity Type",
     "User Location", "IP Location", "Defense Action", "Color", "Pred Threat", "anomaly_score",
     "is_anomaly"}

\* validator.expected_columns("csv")
expected_columns == csv_data_columns \cup OtherColumns

\* the CSV files a user loads: the expected columns, some missing, some more
CsvFixtures ==
    {[missing |-> m, extra |-> e] : m \in SUBSET {"Issue ID", "is_anomaly"},
                                    e \in SUBSET {"Attack Type"}}

\* pd.read_csv(path) of the file f (its rows play no part in the validation)
CsvTable(f) == EmptyFrame((expected_columns \ f.missing) \cup f.extra)

\* AIAgent.validate_csv_structure(self, historical_df); the two lists as sets
validate_csv_structure(self, historical_df) ==
    [is_valid |-> /\ self.reference_columns \ historical_df.columns = {}
                  /\ historical_df.columns \ self.reference_columns = {},
     missing_columns |-> self.reference_columns \ historical_df.columns,
     extra_columns |-> historical_df.columns \ self.reference_columns]

\* bool(d) of a dict d: False for the empty dict only
Truthy(d) == DOMAIN d # {}

\* main: if not agent.validate_csv_structure(df): st.error(...); st.stop()
\*       st.success(...)
main_validate(report) ==
    IF ~Truthy(report)
    THEN [report |-> report, messages |-> <<"CSV structure validation failed.">>, stopped |-> TRUE]
    ELSE [report |-> report, messages |-> <<"CSV structure validated by AI agent.">>, stopped |-> FALSE]

\* the chat state: the session, the agent and the list objects
ChatState == [session_state |-> session_state, agent |-> agent, lists |-> lists]

\* the list objects the session or the agent holds
Referenced(cs) ==
    (IF cs.session_state.chat_history = "None" THEN {} ELSE {cs.session_state.chat_history})
    \cup (IF cs.agent = None THEN {} ELSE {cs.agent.history})

\* [] : a new list object
NewList(cs) == CHOOSE l \in ListNames : l \notin Referenced(cs)

\* list objects nobody holds are gone
Collect(cs) == [cs EXCEPT !.lists = [l \in ListNames |-> IF l \in Referenced(cs) THEN @[l] ELSE <<>>]]

\* chat_utils.init_chat(clear)
init_chat(cs, clear) ==
    IF clear \/ cs.session_state.chat_history = "None"
    THEN [cs EXCEPT !.session_state.chat_history = NewList(cs), !.lists[NewList(cs)] = <<>>]
    ELSE cs

\* the part of AIAgent.__init__ that the validation and the chat use:
\*   self.reference_columns = reference_columns or []
\*   self.history = st.session_state.get("chat_history", [])
AIAgent_history(cs, reference_columns, history) ==
    [cs EXCEPT !.agent = [reference_columns |-> reference_columns, history |-> history],
               !.lists[history] = IF history = cs.session_state.chat_history THEN @ ELSE <<>>]

AIAgent_init(cs, reference_columns) ==
    AIAgent_history(cs, reference_columns,
                    IF cs.session_state.chat_history # "None" THEN cs.session_state.chat_history
                    ELSE NewList([cs EXCEPT !.agent = None]))

\* str.strip() of a string given by its pieces
Whitespace == {" ", "\n"}

RECURSIVE lstrip(_)
lstrip(str) == IF str # <<>> /\ Head(str) \in Whitespace THEN lstrip(Tail(str)) ELSE str

RECURSIVE rstrip(_)
rstrip(str) ==
    IF str # <<>> /\ str[Len(str)] \in Whitespace THEN rstrip(SubSeq(str, 1, Len(str) - 1)) ELSE str

strip(str) == rstrip(lstrip(str))

\* what self.llm.predict(prompt) / self.llm(prompt) does: it returns a string, it returns
\* something that is no string (None: response.strip() raises), or it raises
LlmOutcomes ==
    {[raises |-> "", response |-> Cell(<<" ", "Isolate the host.", "\n">>)],
     [raises |-> "", response |-> NaN],
     [raises |-> "RuntimeError: model not loaded", response |-> NaN]}

Prompts == {<<"What happened?">>, <<"What now?", " ">>}

\* the exception _run_llm catches, "" when the call and response.strip() succeed
LlmFailure(outcome) ==
    IF outcome.raises # "" THEN outcome.raises
    ELSE IF IsNA(outcome.response) THEN "AttributeError: 'NoneType' object has no attribute 'strip'"
    ELSE ""

\* entry = [{"role": "user", ...}, {"role": "assistant", ...}]
chat_entry(prompt, response) ==
    <<[role |-> "user", content |-> prompt], [role |-> "assistant", content |-> strip(response)]>>

\* AIAgent._run_llm(self, prompt): the chat state after it, and the string it returns
run_llm(cs, prompt, outcome) ==
    IF LlmFailure(outcome) # ""
    THEN [cs |-> cs, ret |-> [str |-> <<"LLM generation failed: ", LlmFailure(outcome)>>]]
    ELSE [cs |-> [cs EXCEPT !.lists[cs.agent.history] = @ \o chat_entry(prompt, Val(outcome.response)),
                            !.session_state.chat_history = cs.agent.history],
          ret |-> [str |-> strip(Val(outcome.response))]]

\* a call of the app is over in the chat state cs
AppCall(op, args, cs, ret) ==
    /\ session_state' = Collect(cs).session_state
    /\ agent' = Collect(cs).agent
    /\ lists' = Collect(cs).lists
    /\ result' = [op |-> op, args |-> args, exc |-> None, ret |-> ret]
    /\ UNCHANGED <<heap, pc, rsa, coord, sim, applied, np_random, py_random, seed42, fixture>>

\* init_chat(clear)
CallInitChat ==
    \E clear \in BOOLEAN : AppCall("init_chat", [clear |-> clear], init_chat(ChatState, clear), None)

\* agent = AIAgent(validator.expected_columns("csv"), df)
CallAIAgent ==
    AppCall("AIAgent", None, AIAgent_init(ChatState, expected_columns), None)

RunLlm(prompt, outcome, out) ==
    AppCall("_run_llm", [prompt |-> prompt, outcome |-> outcome], out.cs, out.ret)

\* agent._run_llm(prompt)
CallRunLlm ==
    /\ agent # None
    /\ Len(lists[agent.history]) < 2 * MaxPairs
    /\ \E prompt \in Prompts, outcome \in LlmOutcomes :
          RunLlm(prompt, outcome, run_llm(ChatState, prompt, outcome))

\* agent.validate_csv_structure(df)
CallValidateCsvStructure ==
    /\ agent # None
    /\ AppCall("validate_csv_structure", None, ChatState, validate_csv_structure(agent, heap["df"]))

MainValidated(args, cs) ==
    AppCall("main", args, cs, main_validate(validate_csv_structure(cs.agent, heap["df"])))

\* main(), from the start of a script run to the verdict on the loaded table:
\*   if chat_on: init_chat(clear=clear_chat)
\*   agent = AIAgent(validator.expected_columns("csv"), df, ...)
\*   if not agent.validate_csv_structure(df): st.error(...); st.stop()
Main ==
    \E chat_on \in BOOLEAN, clear_chat \in BOOLEAN :
        MainValidated([chat_on |-> chat_on, clear_chat |-> clear_chat],
                      AIAgent_init(IF chat_on THEN init_chat([ChatState EXCEPT !.agent = None], clear_chat)
                                   ELSE [ChatState EXCEPT !.agent = None],
                                   expected_columns))

InitApp ==
    /\ fixture \in CsvFixtures
    /\ heap = [n \in Slots |-> IF n = "df" THEN CsvTable(fixture) ELSE None]
    /\ pc = "idle"
    /\ rsa = None
    /\ coord = None
    /\ sim = None
    /\ result = NoResult
    /\ applied = <<>>
    /\ np_random = 0
    /\ py_random = 0
    /\ seed42 = 0
    /\ session_state = [chat_history |-> "None"]
    /\ agent = None
    /\ lists = [l \in ListNames |-> <<>>]

NextApp ==
    \/ CallInitChat
    \/ CallAIAgent
    \/ CallRunLlm
    \/ CallValidateCsvStructure
    \/ Main

\* the app's validation and chat
SpecApp == InitApp /\ [][NextApp]_vars

---------------------------------------------------------------------------
(* Properties *)

\* the call of op is over
Over(op) == pc = "done" /\ result.op = op

\* the call of op returned
Returned(op) == Over(op) /\ result.exc = None

\* the rows of t that the attack kind selects from
SelectedBy(kind, t) ==
    CASE kind = "phishing" -> CategoryIs(t, "Access Control")
      [] kind = "malware" -> CategoryIs(t, "System Vulnerability")
      [] kind = "ddos" -> CategoryIs(t, "Network Security")
      [] kind = "data_leak" -> CategoryIs(t, "Data Breach")
      [] kind = "insider" -> LateHours(WithHour(t))
      [] kind = "ransomware" -> CategoryIs(t, "System Vulnerability")

\* the Attack Type label the attack kind writes
DesignatedLabel(kind) ==
    CASE kind = "phishing" -> "Phishing"
      [] kind = "malware" -> "Malware"
      [] kind = "ddos" -> "DDoS"
      [] kind = "data_leak" -> "Data Leak"
      [] kind = "insider" -> "Insider Threat"
      [] kind = "ransomware" -> "Ransomware"

\* the values of rows, without their index labels
RowValues(rows) == [i \in DOMAIN rows |-> rows[i].val]

\* the Issue IDs of the rows of t, in order
IssueIds(t) == [i \in DOMAIN t.rows |-> Val(t.rows[i].val["Issue ID"])]

\* how often x occurs in the sequence s
Count(s, x) == Cardinality({i \in DOMAIN s : s[i] = x})

\* the passes of the runner's loop that got a result subset from apply()
Processed == {i \in DOMAIN applied : ~applied[i].raised}

\* the passes whose result subset holds the row labelled l
Hits(l) == {i \in Processed : l \in Range(applied[i].targets)}

\* the largest element of a non-empty set of numbers
Max(S) == CHOOSE x \in S : \A y \in S : y <= x

\* the attack list holds one kind of the catalog and one outside it
OneValidOneInvalid(list) ==
    /\ Len(list) = 2
    /\ Cardinality({i \in 1..2 : list[i] \in AttackKinds}) = 1

\* C1: a coordinated run with phases [initial, escalation, critical] and the default
\* attack sequence returns a final table whose Phase values are exactly initial,
\* escalation and critical, and the attack log [(initial, [phishing, insider]),
\* (escalation, [malware, data_leak]), (critical, [ddos, ransomware])].
C1_DefaultCoordinatedRun ==
    (/\ Over("simulate_coordinated_attack")
     /\ result.args.phases = DefaultPhases
     /\ "none" \in DOMAIN result.args.attack_sequence)
    => /\ result.exc = None
       /\ result.ret.attack_log = << <<"initial", <<"phishing", "insider">> >>,
                                     <<"escalation", <<"malware", "data_leak">> >>,
                                     <<"critical", <<"ddos", "ransomware">> >> >>
       /\ {Val(c) : c \in Range(Series(result.ret.final_df, "Phase"))}
             = {"initial", "escalation", "critical"}

\* C2: every attack that run_attack, run_multiple_attacks or a coordinated run applies
\* multiplies its noise by the magnitude the caller gave, never by another value.
C2_CallerMagnitudeUsed ==
    (result.op \in {"run_attack", "run_multiple_attacks", "simulate_coordinated_attack"})
    => \A i \in DOMAIN applied : applied[i].anomaly_magnitude = result.args.anomaly_magnitude

\* C3: whatever operations have run, succeeded or failed, the table the caller passed in
\* has the rows, columns and values it was loaded with.
C3_CallerTableUnchanged == heap["df"] = BaseTable(fixture)

\* C3 witness: run_selected_attacks returned a row whose Threat Score differs from the
\* one the caller's table has for the same incident.
C3_Witness ==
    /\ Returned("run_selected_attacks")
    /\ \E i \in DOMAIN result.ret.rows :
          result.ret.rows[i].val["Threat Score"]
             # heap["df"].rows[Val(result.ret.rows[i].val["Issue ID"])].val["Threat Score"]

\* C4: run_selected_attacks called with an empty attack list, or with None for the table,
\* is over at once with a ValueError, has applied no attack and made no working copy.
C4_EmptyListOrNoTableRejected ==
    (/\ result.op = "run_selected_attacks"
     /\ (result.args.selected_attacks = <<>> \/ result.args.df = "None"))
    => /\ pc = "done"
       /\ result.exc # None
       /\ result.exc.type = "ValueError"
       /\ result.ret = None
       /\ applied = <<>>
       /\ rsa = None

\* C4 witness: a call with None for the table and a non-empty list of valid kinds failed.
C4_Witness ==
    /\ Over("run_selected_attacks")
    /\ result.args.df = "None"
    /\ result.args.selected_attacks = <<"phishing", "malware">>
    /\ result.exc # None

\* C5: when run_attack is asked for a kind outside the catalog, and when the loop of
\* run_selected_attacks comes to such a kind, the call fails with the ValueError
\* "Unknown attack type: <kind>" and no instance of an attack is made for that kind;
\* a run_selected_attacks whose list holds such a kind never returns a result.
C5_UnknownKindNamed ==
    /\ (Over("run_attack") /\ result.args.attack_type \notin AttackKinds)
       => (result.exc = ValueError("Unknown attack type: ", result.args.attack_type) /\ applied = <<>>)
    /\ (/\ Over("run_selected_attacks")
        /\ rsa # None
        /\ rsa.i <= Len(rsa.selected_attacks)
        /\ rsa.selected_attacks[rsa.i] \notin AttackKinds)
       => (/\ result.exc = ValueError("Unknown attack type: ", rsa.selected_attacks[rsa.i])
           /\ Len(applied) = rsa.i - 1)
    /\ (/\ Over("run_selected_attacks")
        /\ \E i \in DOMAIN result.args.selected_attacks : result.args.selected_attacks[i] \notin AttackKinds)
       => (result.exc # None /\ result.ret = None)

\* C5 witness: the loop of run_selected_attacks came to rootkit after it had applied a
\* valid kind, and failed naming rootkit.
C5_Witness ==
    /\ Over("run_selected_attacks")
    /\ Len(applied) = 1
    /\ result.exc = ValueError("Unknown attack type: ", "rootkit")

\* C6: run_selected_attacks on a table, with a list of one valid and one invalid kind in
\* either order, fails with the ValueError naming the invalid kind, returns no rows, and
\* leaves the caller's table as it was.
C6_MixedListNamesInvalidKind ==
    (/\ Over("run_selected_attacks")
     /\ result.args.df = "df"
     /\ OneValidOneInvalid(result.args.selected_attacks))
    => /\ \E i \in 1..2 :
             /\ result.args.selected_attacks[i] \notin AttackKinds
             /\ result.exc = ValueError("Unknown attack type: ", result.args.selected_attacks[i])
       /\ result.ret = None
       /\ heap["df"] = BaseTable(fixture)

\* C7: for each of the six kinds, apply() on a table from which it selects no row (an
\* empty table included) raises nothing and returns an empty subset.
C7_NoRowsSelectedIsNoError ==
    (/\ Over("apply")
     /\ SelectedBy(result.args.kind, BaseTable(fixture)).rows = <<>>)
    => /\ result.exc = None
       /\ result.ret.rows = <<>>

\* C8: for each of the six kinds, apply() on a table with at least 20 rows that satisfy
\* the kind's selection predicate returns a non-empty subset, every row of which carries
\* the kind's Attack Type label.
C8_TwentyRowsGiveLabelledSubset ==
    (/\ Over("apply")
     /\ Len(SelectedBy(result.args.kind, BaseTable(fixture)).rows) >= 20)
    => /\ result.exc = None
       /\ result.ret.rows # <<>>
       /\ \A i \in DOMAIN result.ret.rows :
             result.ret.rows[i].val["Attack Type"] = Cell(DesignatedLabel(result.args.kind))

\* C9: the table run_selected_attacks returns is the concatenation, in the order of the
\* attack list, of the subsets the kinds' apply() returned: its rows are theirs, its row
\* count is the sum of their sizes, and an incident selected by k kinds is in it k times.
C9_ResultIsConcatenationOfSubsets ==
    Returned("run_selected_attacks")
    => /\ Len(applied) = Len(result.args.selected_attacks)
       /\ \A i \in DOMAIN applied : applied[i].kind = result.args.selected_attacks[i]
       /\ RowValues(result.ret.rows)
             = RowValues(ConcatRows([i \in DOMAIN applied |-> applied[i].ret], result.ret.columns))
       /\ Len(result.ret.rows) = SumSeq([i \in DOMAIN applied |-> Len(applied[i].targets)])
       /\ \A id \in 1..fixture.n : Count(IssueIds(result.ret), id) = Cardinality(Hits(id - 1))

\* C9 witness: a returned table that holds one incident twice and is shorter than the
\* caller's table.
C9_Witness ==
    /\ Returned("run_selected_attacks")
    /\ \E id \in 1..fixture.n : Count(IssueIds(result.ret), id) = 2
    /\ Len(result.ret.rows) < fixture.n

\* C10: while run_selected_attacks runs and when it is over, a row of the working copy
\* has AnomalyInjected True exactly when a processed kind's subset holds it, its Attack
\* Type is then the capitalized name of the last such kind, and every other row has
\* AnomalyInjected False.
C10_WorkingCopyMarksLastWriter ==
    (result.op = "run_selected_attacks" /\ rsa # None)
    => \A p \in DOMAIN heap["full_df_with_anomalies"].rows :
          IF Hits(heap["full_df_with_anomalies"].rows[p].idx) # {}
          THEN /\ heap["full_df_with_anomalies"].rows[p].val["AnomalyInjected"] = Cell(TRUE)
               /\ heap["full_df_with_anomalies"].rows[p].val["Attack Type"]
                     = Cell(capitalize(applied[Max(Hits(heap["full_df_with_anomalies"].rows[p].idx))].kind))
          ELSE heap["full_df_with_anomalies"].rows[p].val["AnomalyInjected"] = Cell(FALSE)

\* C10 witness: a row that malware and then insider selected is labelled Insider, next
\* to a row no kind selected, whose flag is False.
C10_Witness ==
    /\ Returned("run_selected_attacks")
    /\ result.args.selected_attacks = <<"malware", "insider">>
    /\ \E p \in DOMAIN heap["full_df_with_anomalies"].rows :
          /\ Hits(heap["full_df_with_anomalies"].rows[p].idx) = {1, 2}
          /\ heap["full_df_with_anomalies"].rows[p].val["Attack Type"] = Cell("Insider")
    /\ \E p \in DOMAIN heap["full_df_with_anomalies"].rows :
          /\ Hits(heap["full_df_with_anomalies"].rows[p].idx) = {}
          /\ heap["full_df_with_anomalies"].rows[p].val["AnomalyInjected"] = Cell(FALSE)

\* C11: when run_selected_attacks has returned, a row of the caller's table is among the
\* rows of the returned concatenation (by its Issue ID) exactly when the working copy
\* has AnomalyInjected True for it.
C11_FlagsMatchMembership ==
    Returned("run_selected_attacks")
    => /\ Len(heap["full_df_with_anomalies"].rows) = fixture.n
       /\ \A p \in DOMAIN heap["full_df_with_anomalies"].rows :
             (heap["full_df_with_anomalies"].rows[p].val["AnomalyInjected"] = Cell(TRUE))
             <=> (Val(heap["df"].rows[p].val["Issue ID"]) \in Range(IssueIds(result.ret)))

\* C11 witness: a returned concatenation that holds some rows of the table and not
\* others, the working copy being flagged on the first and not on the second.
C11_Witness ==
    /\ Returned("run_selected_attacks")
    /\ \E p, q \in DOMAIN heap["full_df_with_anomalies"].rows :
          /\ heap["full_df_with_anomalies"].rows[p].val["AnomalyInjected"] = Cell(TRUE)
          /\ Val(heap["df"].rows[p].val["Issue ID"]) \in Range(IssueIds(result.ret))
          /\ heap["full_df_with_anomalies"].rows[q].val["AnomalyInjected"] = Cell(FALSE)
          /\ Val(heap["df"].rows[q].val["Issue ID"]) \notin Range(IssueIds(result.ret))

\* the sequences of seqs, one after the other
RECURSIVE Flatten(_)
Flatten(seqs) == IF seqs = <<>> THEN <<>> ELSE Head(seqs) \o Flatten(Tail(seqs))

\* the Phase values of the rows of t, in order
PhaseOfRows(t) == [i \in DOMAIN t.rows |-> Val(t.rows[i].val["Phase"])]

\* C12: a coordinated run, whatever phase list and mapping the caller gave, returns a
\* final table that is the concatenation of the subsets the attacks returned, in phase
\* order, then attack order, then selection order, every row carrying the name of its
\* phase in the Phase field.
C12_FinalTableInPhaseOrder ==
    Over("simulate_coordinated_attack")
    => /\ result.exc = None
       /\ IssueIds(result.ret.final_df)
             = Flatten([i \in DOMAIN applied |-> [j \in DOMAIN applied[i].targets |-> applied[i].targets[j] + 1]])
       /\ \A i, j \in DOMAIN result.ret.final_df.rows :
             i <= j => \E a, b \in DOMAIN result.args.phases :
                          /\ a <= b
                          /\ result.args.phases[a] = PhaseOfRows(result.ret.final_df)[i]
                          /\ result.args.phases[b] = PhaseOfRows(result.ret.final_df)[j]

\* the attack_sequence a coordinated run uses for the mapping the caller passed
MappingUsed(attack_sequence) ==
    IF "none" \in DOMAIN attack_sequence THEN DefaultAttackSequence ELSE attack_sequence

\* C13: a coordinated run produces an attack log that holds one (phase, attack list)
\* pair per entry of the phase list, in the order of the phase list, each with the
\* mapping's attack list for that phase, a pair being appended once its phase has run.
C13_AttackLogOnePairPerPhase ==
    Over("simulate_coordinated_attack")
    => /\ result.exc = None
       /\ coord.attack_log = result.ret.attack_log
       /\ result.ret.attack_log
             = [k \in DOMAIN result.args.phases |->
                   <<result.args.phases[k],
                     Get(MappingUsed(result.args.attack_sequence), result.args.phases[k])>>]

\* C14: in a coordinated run every phase of the list is run, and the table each phase is
\* run on equals the caller's table, whatever phases ran before it.
C14_EveryPhaseOnBaseSnapshot ==
    (result.op = "simulate_coordinated_attack")
    => /\ heap["combined_data"] = BaseTable(fixture)
       /\ heap["simulator.base_data"] \in {None, BaseTable(fixture)}
       /\ pc = "done" => coord.k = Len(coord.phases) + 1

\* the state in which simulator.run_multiple_attacks(attacks) leaves the phase st is at
PhaseRunOf(st) ==
    coord_run(coord_print(st, <<"Running", coord_phase(st), coord_attacks(st)>>),
              BaseAttackSimulator_init(st.heap, "simulator", st.coord.combined_data,
                                       st.coord.anomaly_magnitude, coord_phase(st)),
              coord_attacks(st))

\* C15: when the run of a phase of a coordinated run raises, the coordinated run is over
\* with that exception: it returns nothing, starts no later phase, and the phase tables
\* and the attack log it had collected go no further.
C15_PhaseExceptionAbortsRun ==
    [][(pc = "coord" /\ coord_looping(Current) /\ Raised(PhaseRunOf(Current)))
       => /\ pc' = "done"
          /\ result'.exc = PhaseRunOf(Current).exc
          /\ result'.ret = None
          /\ coord'.k = coord.k
          /\ coord'.attack_log = coord.attack_log
          /\ coord'.all_phase_data = coord.all_phase_data]_vars

\* C15 witness: a coordinated run over three phases is over with the exception its first
\* phase raised; the two later phases were not started and nothing was returned.
C15_Witness ==
    /\ Over("simulate_coordinated_attack")
    /\ Len(coord.phases) = 3
    /\ coord.k = 1
    /\ result.exc # None
    /\ result.ret = None
    /\ Len(coord.stdout) = 1

\* the rows of t as a set, each cut down to the columns cols
RowsOver(t, cols) ==
    {[idx |-> t.rows[i].idx, val |-> [c \in cols |-> t.rows[i].val[c]]] : i \in DOMAIN t.rows}

\* the rows of t whose value in column lies outside [Q1 - 1.5 * IQR, Q3 + 1.5 * IQR] of t
OutsideFences(t, column, q1, q3) ==
    {t.rows[i].idx : i \in {j \in DOMAIN t.rows :
        /\ ~IsNA(t.rows[j].val[column]) /\ ~IsNA(q1) /\ ~IsNA(q3)
        /\ \/ 8 * Val(t.rows[j].val[column]) < 5 * Val(q1) - 3 * Val(q3)
           \/ 8 * Val(t.rows[j].val[column]) > 5 * Val(q3) - 3 * Val(q1)}}

\* the index labels of the synthetic outliers of fixture f: row 3 of an "outlier" or
\* "gaps" column, row 2 of a "dip" column
SyntheticOutliers(f) ==
    CASE f.number \in {"outlier", "gaps"} /\ f.n >= 3 -> {2}
      [] f.number = "dip" /\ f.n >= 2 -> {1}
      [] OTHER -> {}

\* the index labels of t as a set
Labels(t) == {t.rows[i].idx : i \in DOMAIN t.rows}

\* the two partitions anomalies and normal are disjoint, together they are the rows of t
\* with every column of t unchanged and the flag added, and the rows far holds are flagged
PartitionOf(t, anomalies, normal, far) ==
    /\ Labels(anomalies) \cap Labels(normal) = {}
    /\ Len(anomalies.rows) + Len(normal.rows) = Len(t.rows)
    /\ RowsOver(anomalies, t.columns) \cup RowsOver(normal, t.columns) = RowsOver(t, t.columns)
    /\ anomalies.columns = t.columns \cup {"Actual Anomaly"}
    /\ normal.columns = t.columns \cup {"Actual Anomaly"}
    /\ \A i \in DOMAIN anomalies.rows : anomalies.rows[i].val["Actual Anomaly"] = Cell(1)
    /\ \A i \in DOMAIN normal.rows : normal.rows[i].val["Actual Anomaly"] = Cell(0)
    /\ far \subseteq Labels(anomalies)
    /\ far \cap Labels(normal) = {}

\* C16: detect_early_anomalies returns two disjoint partitions whose union is the input
\* table with every original column unchanged and only the Actual Anomaly flag added; the
\* caller's table is not touched; every row outside the fences, the synthetic outlier
\* among them, is in the flagged partition and not in the unflagged one.
C16_FlaggerPartitionsInput ==
    Over("detect_early_anomalies")
    => /\ result.exc = None
       /\ heap["df"] = BaseTable(fixture)
       /\ PartitionOf(BaseTable(fixture), result.ret.df_anomalies, result.ret.df_normal,
                      SyntheticOutliers(fixture)
                      \cup OutsideFences(BaseTable(fixture), result.args.column,
                                         Quantile4(Series(BaseTable(fixture), result.args.column), 1),
                                         Quantile4(Series(BaseTable(fixture), result.args.column), 3)))

\* C16 witness: on a column whose second row lies far below the rest, the flagged
\* partition is that row alone and the unflagged partition holds the other rows.
C16_Witness ==
    /\ Over("detect_early_anomalies")
    /\ fixture.number = "dip"
    /\ fixture.n = 8
    /\ Labels(result.ret.df_anomalies) = {1}
    /\ Labels(result.ret.df_normal) = (0..7) \ {1}

\* |x|
Abs(x) == IF x < 0 THEN -x ELSE x

\* the absolute perturbations of column c in the result subset sub of an attack on t:
\* value after minus value before, for the rows that have a value
Perturbations(sub, t, c) ==
    [i \in DOMAIN sub.rows |->
        IF IsNA(sub.rows[i].val[c]) THEN 0
        ELSE Abs(Val(sub.rows[i].val[c]) - Val(t.rows[PosOf(t, sub.rows[i].idx)].val[c]))]

\* the attack that reached half and the attack that reached full, both on t, selected the
\* same rows, and in no numeric column is the mean absolute perturbation of full below
\* that of half (the means are over the same rows: the sums are compared)
NotLessPerturbed(half, full, t) ==
    /\ Raised(half) <=> Raised(full)
    /\ ~Raised(half) =>
          /\ Index(half.ret) = Index(full.ret)
          /\ \A c \in NumericColumns :
                SumSeq(Perturbations(half.ret, t, c)) <= SumSeq(Perturbations(full.ret, t, c))

\* C17: for the same state of the random generators and the same table, an attack applied
\* with twice the default magnitude perturbs every numeric column of the selected rows
\* by a mean absolute amount that is not below that of the attack with the default magnitude.
C17_DoublingMagnitudeNotLess ==
    [][(pc = "idle" /\ pc' = "done" /\ result'.op = "apply"
        /\ result'.args.anomaly_magnitude = 2 * DefaultMagnitude)
       => NotLessPerturbed(RunAttack(Fresh, result'.args.kind,
                                     BaseAttack_init(Fresh.heap, "df", DefaultMagnitude)),
                           result', BaseTable(fixture))]_vars

\* C17 witness: a phishing attack with twice the default magnitude has returned two rows
\* of a 20-row table whose Login Attempts it moved away from their values before.
C17_Witness ==
    /\ Returned("apply")
    /\ result.args = [kind |-> "phishing", anomaly_magnitude |-> 2 * DefaultMagnitude]
    /\ fixture.n = 20
    /\ Len(result.ret.rows) = 2
    /\ SumSeq(Perturbations(result.ret, BaseTable(fixture), "Login Attempts")) > 0

\* C18: every row of the result subset of a ddos attack has Threat Level "Critical".
C18_DDoSEscalatesToCritical ==
    (Returned("apply") /\ result.args.kind = "ddos")
    => \A i \in DOMAIN result.ret.rows : result.ret.rows[i].val["Threat Level"] = Cell("Critical")

\* the fraction frac=num/den of the matching rows that the attack kind samples
Fraction(kind) ==
    CASE kind = "phishing" -> [num |-> 1, den |-> 10]
      [] kind = "malware" -> [num |-> 1, den |-> 10]
      [] kind = "ddos" -> [num |-> 1, den |-> 5]
      [] kind = "data_leak" -> [num |-> 1, den |-> 10]
      [] kind = "insider" -> [num |-> 1, den |-> 10]
      [] kind = "ransomware" -> [num |-> 1, den |-> 50]

\* the index labels the attack kind samples from t with the fixed seed
SelectionOf(kind, t, seed) ==
    Index(Sample(SelectedBy(kind, t), Fraction(kind).num, Fraction(kind).den, seed))

\* C19: the rows an attack selects are a function of its kind and of the loaded table
\* alone: every application, whatever its magnitude, the state of the ambient random
\* generators and the attacks run before it, selects the same rows as any other
\* application of that kind.
C19_SelectionDeterministic ==
    /\ \A i \in DOMAIN applied :
          applied[i].targets = SelectionOf(applied[i].kind, BaseTable(fixture), seed42)
    /\ \A i, j \in DOMAIN applied :
          applied[i].kind = applied[j].kind => applied[i].targets = applied[j].targets

\* C19 witness: a run of malware twice with magnitude 3.0 is over; the second application
\* worked on the table the first had changed and selected the same, non-empty set of rows.
C19_Witness ==
    /\ Returned("run_selected_attacks")
    /\ result.args.selected_attacks = <<"malware", "malware">>
    /\ result.args.anomaly_magnitude = 2 * DefaultMagnitude
    /\ Len(applied) = 2
    /\ applied[1].targets # <<>>
    /\ applied[2].targets = applied[1].targets
    /\ Len(result.ret.rows) = 2
    /\ result.ret.rows[1].val # result.ret.rows[2].val

\* the category whose rows the attack kind is aimed at
TargetCategory(kind) ==
    CASE kind = "phishing" -> "Access Control"
      [] kind = "malware" -> "System Vulnerability"
      [] kind = "ddos" -> "Network Security"
      [] kind = "data_leak" -> "Data Breach"
      [] kind = "ransomware" -> "System Vulnerability"
      [] OTHER -> ""

\* row i of the input table t satisfies the predicate of the attack kind: its Category
\* is the kind's, or for insider its timestamp is there, parses and falls before 6 o'clock
Matches(kind, t, i) ==
    IF kind = "insider"
    THEN /\ ~IsNA(t.rows[i].val["Timestamps"])
         /\ Val(t.rows[i].val["Timestamps"]).parsable
         /\ Val(t.rows[i].val["Timestamps"]).hour < 6
    ELSE t.rows[i].val["Category"] = Cell(TargetCategory(kind))

\* the index labels of the rows of t that satisfy the predicate of the attack kind
Matching(kind, t) == {t.rows[i].idx : i \in {j \in DOMAIN t.rows : Matches(kind, t, j)}}

\* size is num/den of matching, rounded to an integer
IsRounded(size, matching, num, den) ==
    2 * Abs(den * size - num * matching) <= den

\* sub is made of distinct rows of t that satisfy the predicate of the attack kind, and
\* as many of them as the kind's fraction of the matching rows, rounded
SubsetOfMatching(kind, sub, t) ==
    /\ Cardinality(Labels(sub)) = Len(sub.rows)
    /\ Labels(sub) \subseteq Matching(kind, t)
    /\ \A i \in DOMAIN sub.rows :
          sub.rows[i].val["Issue ID"] = t.rows[PosOf(t, sub.rows[i].idx)].val["Issue ID"]
    /\ IsRounded(Len(sub.rows), Cardinality(Matching(kind, t)), Fraction(kind).num, Fraction(kind).den)
    /\ Fraction(kind) \in {[num |-> 1, den |-> 10], [num |-> 1, den |-> 5], [num |-> 1, den |-> 50]}

\* C20: the result subset of an attack is made of distinct rows of the input that all
\* satisfy the kind's predicate (the kind's Category; for insider a timestamp that parses
\* and falls in the irregular hours, so never an unparsable or missing one), and its size
\* is the kind's fraction of the matching rows (0.1, for ddos 0.2, for ransomware 0.02)
\* rounded to an integer.
C20_SubsetMatchesPredicateAndFraction ==
    Returned("apply") => SubsetOfMatching(result.args.kind, result.ret, BaseTable(fixture))

\* C20 witness: an insider attack on nine rows, three of them with unparsable timestamps,
\* returned one of the six night-time rows, the one labelled 5.
C20_Witness ==
    /\ Returned("apply")
    /\ result.args.kind = "insider"
    /\ fixture.timestamp = "garbled"
    /\ Cardinality(Matching("insider", BaseTable(fixture))) = 6
    /\ Labels(result.ret) = {5}

\* what the detector new.self returns for column
FlaggerOn(column, new) ==
    detect_early_anomalies(Machine(new.heap, 0, 0, 0), new.self, column).ret

\* what EarlyAnomalyDetectorClass(df).detect_early_anomalies(column) returns on the
\* table of fixture g
FlaggerOnTable(g, column) ==
    FlaggerOn(column,
              EarlyAnomalyDetectorClass_init(
                  [n \in Slots |-> IF n = "df" THEN BaseTable(g) ELSE None], "df"))

\* the rows of t that have a value in column other than the point q4 / 4
OffPoint(t, column, q4) ==
    {t.rows[i].idx : i \in {j \in DOMAIN t.rows :
        ~IsNA(t.rows[j].val[column]) /\ 4 * Val(t.rows[j].val[column]) # q4}}

\* the flagged rows are those strictly outside the fences of the quartiles q1, q3 of the
\* column; when the quartiles coincide they are the rows whose value is off that point
FlaggedExactly(t, column, anomalies, normal, q1, q3) ==
    /\ Labels(anomalies) = OutsideFences(t, column, q1, q3)
    /\ Labels(normal) = Labels(t) \ OutsideFences(t, column, q1, q3)
    /\ (~IsNA(q1) /\ q1 = q3) => Labels(anomalies) = OffPoint(t, column, Val(q1))

\* C21: detect_early_anomalies flags a row exactly when its value in the target column is
\* strictly below Q1 - 1.5 * IQR or strictly above Q3 + 1.5 * IQR; when IQR = 0 the
\* flagged rows are those whose value differs from the quartile point; and any table
\* with the same values in that column gets the same rows flagged.
C21_FlaggedExactlyOutsideFences ==
    Over("detect_early_anomalies")
    => /\ FlaggedExactly(BaseTable(fixture), result.args.column,
                         result.ret.df_anomalies, result.ret.df_normal,
                         Quantile4(Series(BaseTable(fixture), result.args.column), 1),
                         Quantile4(Series(BaseTable(fixture), result.args.column), 3))
       /\ \A g \in DetectorFixtures :
             Series(BaseTable(g), result.args.column)
                = Series(BaseTable(fixture), result.args.column)
             => Labels(FlaggerOnTable(g, result.args.column).df_anomalies)
                   = Labels(result.ret.df_anomalies)

\* C21 witness: on a column of eight values with IQR = 0 (six at the quartile point, one
\* just below it, one far above it) the two off-point rows are flagged and no other; a
\* table of another category with the same column exists.
C21_Witness ==
    /\ Over("detect_early_anomalies")
    /\ fixture = Fixture(8, "mixed", "spike", "day")
    /\ Quantile4(Series(BaseTable(fixture), result.args.column), 1)
          = Quantile4(Series(BaseTable(fixture), result.args.column), 3)
    /\ Labels(result.ret.df_anomalies) = {1, 2}
    /\ Labels(result.ret.df_normal) = (0..7) \ {1, 2}
    /\ Series(BaseTable(Fixture(8, "Data Breach", "spike", "garbled")), result.args.column)
          = Series(BaseTable(fixture), result.args.column)

\* C22: the noise parameters an attack derives from a column are floored: whatever the
\* column (empty, all missing, constant, all zero, of negative mean), the mean parameter
\* is positive, never zero or negative, and the standard-deviation parameter is above 0.
C22_NoiseParametersFloored ==
    Over("apply")
    => \A c \in NumericColumns :
          /\ safe_mean(Series(BaseTable(fixture), c)).num > 0
          /\ safe_std(Series(BaseTable(fixture), c)).num > 0

\* the messages with which numpy rejects the parameters of a distribution call
ParameterErrors == {"lam < 0", "scale < 0", "sigma < 0"}

\* C23: on every input table, each distribution call of an attack gets parameters inside
\* the distribution's domain, so that no attack fails on parameter validation.
C23_ParametersInDomain ==
    Over("apply") => ~(result.exc # None /\ result.exc.msg \in ParameterErrors)

\* the phases of the list that the mapping gives no attack kind: no entry, or an empty list
UnmappedPhases(phases, mapping) ==
    {k \in DOMAIN phases : Get(mapping, phases[k]) = <<>>}

\* C24: a coordinated run whose phase list holds a name that the phase-to-kind mapping
\* gives no kind is over with a ValueError (the invalid-argument error of the runner);
\* neither a final table nor an attack log is returned.
C24_UnmappedPhaseIsValueError ==
    (/\ Over("simulate_coordinated_attack")
     /\ UnmappedPhases(result.args.phases, MappingUsed(result.args.attack_sequence)) # {})
    => /\ result.exc # None
       /\ result.exc.type = "ValueError"
       /\ result.ret = None

\* C25: every row of the table run_selected_attacks returns carries AnomalyInjected =
\* True, as the working copy does for the same row.
C25_ReturnedRowsCarryFlag ==
    Returned("run_selected_attacks")
    => \A i \in DOMAIN result.ret.rows : result.ret.rows[i].val["AnomalyInjected"] = Cell(TRUE)

\* the attack kind applied, from the state st of a running run_selected_attacks, to the
\* caller's table instead of the working copy
OnBaseTable(st, kind) ==
    RunAttack(st, kind, BaseAttack_init(st.heap, "df", st.rsa.anomaly_magnitude))

\* the logged application entry has the outcome of the application base: it raised when
\* base raised, else its subset has the rows of base's with the same value in every
\* column of base's, and the column AnomalyInjected besides
SameSubset(entry, base) ==
    /\ entry.raised = Raised(base)
    /\ ~entry.raised =>
          /\ Index(entry.ret) = Index(base.ret)
          /\ entry.ret.columns = base.ret.columns \cup {"AnomalyInjected"}
          /\ \A i \in DOMAIN entry.ret.rows : \A c \in base.ret.columns :
                entry.ret.rows[i].val[c] = base.ret.rows[i].val[c]

\* the working copy of a run differs from the table t in AnomalyInjected and Attack Type only
OnlyMarksDiffer(working, t) ==
    /\ working.columns \ {"AnomalyInjected", "Attack Type"} = t.columns \ {"Attack Type"}
    /\ Index(working) = Index(t)
    /\ \A p \in DOMAIN working.rows : \A c \in t.columns \ {"Attack Type"} :
          working.rows[p].val[c] = t.rows[p].val[c]

\* C26: within a run of run_selected_attacks perturbations do not accumulate: the working
\* copy differs from the caller's table in AnomalyInjected and Attack Type only, and
\* every kind of the list returns the subset it would have returned on the caller's
\* table, so that a row hit by two kinds is in each subset with its base values and that
\* kind's noise alone.
C26_NoAccumulationAcrossKinds ==
    [][/\ (pc' = "rsa" \/ (pc' = "done" /\ result'.op = "run_selected_attacks" /\ result'.exc = None))
          => OnlyMarksDiffer(heap'["full_df_with_anomalies"], BaseTable(fixture))
       /\ (pc = "rsa" /\ Len(applied') = Len(applied) + 1)
          => \A base \in {OnBaseTable(Current, applied'[Len(applied')].kind)} :
                SameSubset(applied'[Len(applied')], base)]_vars

\* C26 witness: malware and then insider hit the same row of six; both subsets are
\* returned, and the insider's row has the base value in Num Files Accessed, which
\* malware had perturbed in its own subset.
C26_Witness ==
    /\ Returned("run_selected_attacks")
    /\ result.args.selected_attacks = <<"malware", "insider">>
    /\ Len(result.ret.rows) = 2
    /\ result.ret.rows[1].val["Issue ID"] = result.ret.rows[2].val["Issue ID"]
    /\ result.ret.rows[1].val["Num Files Accessed"]
          # BaseTable(fixture).rows[Val(result.ret.rows[1].val["Issue ID"])].val["Num Files Accessed"]
    /\ result.ret.rows[2].val["Num Files Accessed"]
          = BaseTable(fixture).rows[Val(result.ret.rows[2].val["Issue ID"])].val["Num Files Accessed"]
    /\ OnlyMarksDiffer(heap["full_df_with_anomalies"], BaseTable(fixture))

\* the columns the attacks and the runners may add to the original ones
DerivedColumns ==
    {"Attack Type", "Phase", "Source IP Address", "Destination IP Address", "Access Restricted Files"}

\* C27: the table run_selected_attacks returns has all original columns and, besides
\* them, derived columns only (Attack Type, Phase, the two IP address columns, Access
\* Restricted Files), every row having a cell for every column of the table.
C27_OnlyDerivedColumnsAdded ==
    Returned("run_selected_attacks")
    => /\ BaseTable(fixture).columns \subseteq result.ret.columns
       /\ result.ret.columns \subseteq BaseTable(fixture).columns \cup DerivedColumns
       /\ \A i \in DOMAIN result.ret.rows : DOMAIN result.ret.rows[i].val = result.ret.columns

\* a is a dotted IPv4 address, given by its four octets, of a value in 1..2^32-1
WellFormedAddress(a) ==
    /\ DOMAIN a = 1..4
    /\ \A k \in 1..4 : a[k] \in 0..255
    /\ a # <<0, 0, 0, 0>>

\* the address pairs of the rows of sub, in order
AddressPairs(sub) ==
    [i \in DOMAIN sub.rows |->
        <<Val(sub.rows[i].val["Source IP Address"]), Val(sub.rows[i].val["Destination IP Address"])>>]

\* C28: every row of the result subset of a ddos attack has a Source IP Address and a
\* Destination IP Address, both well-formed dotted IPv4 addresses other than 0.0.0.0;
\* the rows got, in order, the pairs that were generated, one pair per row, Python's
\* generator having moved on by as many values.
C28_DDoSAddressesWellFormed ==
    (Returned("apply") /\ result.args.kind = "ddos")
    => /\ \A i \in DOMAIN result.ret.rows :
             /\ ~IsNA(result.ret.rows[i].val["Source IP Address"])
             /\ ~IsNA(result.ret.rows[i].val["Destination IP Address"])
             /\ WellFormedAddress(Val(result.ret.rows[i].val["Source IP Address"]))
             /\ WellFormedAddress(Val(result.ret.rows[i].val["Destination IP Address"]))
       /\ \E s \in 0..(NumPyStates - 1) :
             /\ generate_ip_pairs(s, Len(result.ret.rows)).pairs = AddressPairs(result.ret)
             /\ generate_ip_pairs(s, Len(result.ret.rows)).state = py_random

\* C28 witness: a ddos attack on twenty Network Security rows returned four rows, each
\* with the source address 0.0.0.1, of the smallest value the generator yields, and the
\* destination address 192.168.1.2.
C28_Witness ==
    /\ Returned("apply")
    /\ result.args.kind = "ddos"
    /\ Len(result.ret.rows) = 4
    /\ \A i \in DOMAIN result.ret.rows :
          /\ result.ret.rows[i].val["Source IP Address"] = Cell(<<0, 0, 0, 1>>)
          /\ result.ret.rows[i].val["Destination IP Address"] = Cell(<<192, 168, 1, 2>>)

\* C29: a loaded table is accepted only if its columns are exactly the expected 36: when a
\* column is missing or extra, validate_csv_structure reports is_valid = False, and main
\* shows the validation error and stops.
C29_MismatchedTableStopsApp ==
    (result.op = "main" /\ heap["df"].columns # expected_columns)
    => /\ Cardinality(expected_columns) = 36
       /\ result.ret.report.is_valid = FALSE
       /\ result.ret.stopped
       /\ result.ret.messages = <<"CSV structure validation failed.">>


\* the chat history the app shows: st.session_state.chat_history
History == IF session_state.chat_history = "None" THEN <<>> ELSE lists[session_state.chat_history]

\* the history the agent writes to: self.history
AgentHistory == IF agent = None THEN <<>> ELSE lists[agent.history]

Pairs(h) ==
    /\ Len(h) % 2 = 0
    /\ \A i \in 1..Len(h) : h[i].role = IF i % 2 = 1 THEN "user" ELSE "assistant"

Succeeds(r) == r.op = "_run_llm" /\ LlmFailure(r.args.outcome) = ""

Fails(r) == r.op = "_run_llm" /\ LlmFailure(r.args.outcome) # ""

\* C30: after any sequence of init_chat and _run_llm calls the chat history
\* is a sequence of (user, assistant) pairs; a successful LLM call appends
\* exactly one pair, a failed one returns an error string and leaves the
\* history unchanged, and init_chat(clear=True) empties it.
C30_ChatHistoryIsPairs ==
    [][/\ Pairs(History')
       /\ Succeeds(result')
          => /\ History' = History \o chat_entry(result'.args.prompt, Val(result'.args.outcome.response))
             /\ result'.ret.str = strip(Val(result'.args.outcome.response))
       /\ Fails(result')
          => /\ History' = History
             /\ result'.ret.str = <<"LLM generation failed: ", LlmFailure(result'.args.outcome)>>
       /\ (result'.op = "init_chat" /\ result'.args.clear)
          => History' = <<>>]_vars

====
